---- MODULE Spec2Model ----
(***************************************************************************)
(* A model of onedatareport: the disk-backed ColumnarDataFrame, the drift  *)
(* analysis (trend.py), the profiling reduction pipeline (profiling.py)    *)
(* and the per-column orchestration (column.py).                           *)
(*                                                                         *)
(* Python values are modelled as follows.  A raised exception is a record  *)
(* [raised |-> <exception class>].  A pandas single-column frame is a      *)
(* record [cols |-> <<name>>, rows |-> values].  None is the record None   *)
(* where a frame or a result is expected and the string NoName where a     *)
(* column name is expected (TLC compares values of one kind only).         *)
(***************************************************************************)
EXTENDS Integers, Sequences, FiniteSets, TLC

VARIABLES
    store,      \* the ColumnarDataFrame object (its attributes and its directory)
    source_df,  \* the dataset the store was constructed from
    trace,      \* the column names passed to load_column so far, in call order
    last,       \* the outcome of the most recent call on the store
    n_reads,    \* pd.read_pickle calls that read a file so far
    n_rmtree,   \* directory removals that shutil.rmtree performed so far
    n_del,      \* __del__ invocations so far
    n_store,    \* store_data calls the client has made on the store so far
    mutated,    \* the columns whose returned frame the caller has modified
    it,         \* the generator of __iter__: where it stands and what it yielded
    a_orig,     \* drift analysis: the original frame (column name -> values)
    a_new,      \* drift analysis: the new frame
    a_period,   \* drift analysis: the seasonal period
    a_kind,     \* drift analysis: whether column x holds categories or numbers
    a_call,     \* drift analysis: the function last called and what it returned
    r_report,   \* profile reduction: the raw profiling report
    r_call,     \* profile reduction: the function last called and what it returned
    o_orig,     \* process_columns: original_df (column order, column -> values)
    o_new,      \* process_columns: new_df
    o_config,   \* process_columns: columns_config (time_column, period, type_schema)
    o_idx,      \* process_columns: the position of the loop in original_df.columns
    o_final,    \* process_columns: the rows of final_report_df
    o_pc,       \* process_columns: "loop", "returned" or "raised"
    o_log,      \* the latest process_column call: what it called, held and gave
    k_orig,     \* process_columns: the ColumnarDataFrame passed as original_df
    k_new,      \* process_columns: the ColumnarDataFrame passed as new_df
    k_loads     \* process_columns: its load_column calls, in call order

storeVars == <<store, source_df, trace, last, n_reads, n_rmtree, n_del, n_store, mutated, it>>

driftVars == <<a_orig, a_new, a_period, a_kind, a_call>>

reduceVars == <<r_report, r_call>>

orchVars == <<o_orig, o_new, o_config, o_idx, o_final, o_pc, o_log, k_orig, k_new, k_loads>>

vars == <<storeVars, driftVars, reduceVars, orchVars>>

None == [none |-> TRUE]

NoName == "None"

Raised(exc) == [raised |-> exc]

IsRaised(r) == "raised" \in DOMAIN r

(***************************************************************************)
(* Bounds of the model.                                                    *)
(***************************************************************************)
MaxCalls == 4
MaxLifeCalls == 2
MaxDel == 2
MaxCatLen == 2
MaxSeriesLen == 3
MaxPeriod == 3
MaxPasses == 2
MaxIterLoads == 1
MaxStoreData == 1

\* The column names datasets are built from, and a name no dataset has.
ColumnNames == {"A", "B", "C"}
\* The values a cell of a column takes.
CellValues == {0, 1}
RequestNames == ColumnNames \cup {"Z"}

\* The sequences over S without repetition.
RECURSIVE Arrangements(_)
Arrangements(S) ==
    {<<>>} \cup UNION {{<<x>> \o rest : rest \in Arrangements(S \ {x})} : x \in S}

Range(s) == {s[i] : i \in DOMAIN s}

\* A dataset: ordered distinct column names, and each column's values.
Datasets ==
    UNION {[columns : {cs}, data : [Range(cs) -> {<<v>> : v \in CellValues}]] :
           cs \in Arrangements(ColumnNames)}

(***************************************************************************)
(* ColumnarDataFrame                                                       *)
(***************************************************************************)

\* df[[col]]: the single-column frame of a dataset.
Frame(df, col) == [cols |-> <<col>>, rows |-> df.data[col]]

\* A path that does not depend on the column: the f-string without its braces.
ColPath_literal(col) == "col.pkl"

\* os.path.join(self.temp_dir, f"{col}.pkl"), relative to temp_dir.
ColPath(col) == col \o ".pkl"

\* DataFrame.to_pickle: the bytes written for a frame.
Pickle(frame) == [format |-> "pickle", payload |-> frame]

\* pd.read_pickle of a file's bytes.
Unpickle(bytes) == bytes.payload

\* to_pickle(path) in the store's directory: the new directory content, or
\* the OSError pandas raises before it opens the file when the directory of
\* path is gone ("Cannot save file into a non-existent directory").
ToPickle(self, frame, path) ==
    IF self.temp_dir = "removed"
    THEN Raised("OSError")
    ELSE [p \in DOMAIN self.disk \cup {path} |->
            IF p = path THEN Pickle(frame) ELSE self.disk[p]]

\* A read that answers a missing file with an empty frame.
ReadPickle_lenient(self, path) ==
    IF self.temp_dir = "removed" \/ path \notin DOMAIN self.disk
    THEN [cols |-> <<>>, rows |-> <<>>]
    ELSE Unpickle(self.disk[path])

\* pd.read_pickle(path) in the store's directory.
ReadPickle(self, path) ==
    IF self.temp_dir = "removed" \/ path \notin DOMAIN self.disk
    THEN Raised("FileNotFoundError")
    ELSE Unpickle(self.disk[path])

\* store_data: every column of df written to its own file.
RECURSIVE StoreData(_, _, _)
StoreData(files, df, cols) ==
    IF cols = <<>> THEN files
    ELSE StoreData([p \in DOMAIN files \cup {ColPath(Head(cols))} |->
                       IF p = ColPath(Head(cols)) THEN Pickle(Frame(df, Head(cols)))
                       ELSE files[p]],
                   df, Tail(cols))

\* __init__(df, data_type)
NewStore(df) ==
    [temp_dir |-> "exists",
     columns |-> df.columns,
     current_column |-> None,
     current_column_name |-> NoName,
     disk |-> StoreData(<<>>, df, df.columns)]

\* The columns store_data gets through before df[[col]] fails: those that
\* come before the first column of the store that df does not have.
RECURSIVE Present(_, _)
Present(df, cols) ==
    IF cols = <<>> \/ Head(cols) \notin Range(df.columns) THEN <<>>
    ELSE <<Head(cols)>> \o Present(df, Tail(cols))

\* store_data(df) called on a store: for each column of the store in turn
\* df[[col]] is taken (KeyError when df has no such column) and pickled into
\* the directory (OSError when the directory is gone); the files written
\* before a failure stay written. The active slot is not touched.
store_data(self, df) ==
    LET done == Present(df, self.columns)
    IN  IF done = self.columns
        THEN IF self.temp_dir = "removed" /\ self.columns # <<>>
             THEN [self |-> self, ret |-> Raised("OSError")]
             ELSE [self |-> [self EXCEPT !.disk = StoreData(self.disk, df, done)],
                   ret |-> None]
        ELSE IF self.temp_dir = "removed" /\ done # <<>>
             THEN [self |-> self, ret |-> Raised("OSError")]
             ELSE [self |-> [self EXCEPT !.disk = StoreData(self.disk, df, done)],
                   ret |-> Raised("KeyError")]

\* The test with == where the code has !=.
WritesBack_same(self, column_name) ==
    self.current_column_name # NoName /\ self.current_column_name = column_name

\* Whether load_column writes the resident column back before reading.
WritesBack(self, column_name) ==
    self.current_column_name # NoName /\ self.current_column_name # column_name

\* load_column(column_name): [self |-> the store afterwards,
\*   ret |-> the returned frame or the exception raised, read, wrote].
load_column(self, column_name) ==
    LET wb == WritesBack(self, column_name)
        written == IF wb
                   THEN ToPickle(self, self.current_column,
                                 ColPath(self.current_column_name))
                   ELSE self.disk
    IN  IF wb /\ IsRaised(written)
        THEN [self |-> self, ret |-> written, read |-> FALSE, wrote |-> FALSE]
        ELSE LET s1 == [self EXCEPT !.disk = written]
                 got == ReadPickle(s1, ColPath(column_name))
             IN  IF got = Raised("FileNotFoundError")
                 THEN [self |-> s1, ret |-> got, read |-> FALSE, wrote |-> wb]
                 ELSE [self |-> [s1 EXCEPT !.current_column = got,
                                           !.current_column_name = column_name],
                       ret |-> got, read |-> TRUE, wrote |-> wb]

\* A get_columns that answers with the columns of the frame in memory.
get_columns_loaded(self) ==
    IF self.current_column = None THEN self.columns ELSE self.current_column.cols

\* get_columns()
get_columns(self) == self.columns

\* An iteration that starts at the second column.
IterColumns_rest(self) ==
    IF self.columns = <<>> THEN <<>> ELSE Tail(self.columns)

\* for col in self.columns: the columns __iter__ goes through.
IterColumns(self) == self.columns

\* __del__(): shutil.rmtree(self.temp_dir)
del_store(self) ==
    IF self.temp_dir = "removed"
    THEN [self |-> self, ret |-> Raised("FileNotFoundError"), removed |-> FALSE]
    ELSE [self |-> [self EXCEPT !.temp_dir = "removed", !.disk = <<>>],
          ret |-> None, removed |-> TRUE]

(***************************************************************************)
(* The store's state machine: a client constructs a store and then calls   *)
(* load_column, modifies the frame it was handed, and disposes the store.  *)
(***************************************************************************)
NoCall == [op |-> "init", arg |-> NoName, ret |-> None, wrote |-> FALSE,
           resident |-> NoName]

\* No generator of the store has been made: state is "none", "running",
\* "done" (StopIteration) or "raised"; pos is the position of the for loop in
\* self.columns; out is what the running pass has yielded, passes what the
\* finished passes yielded; loads counts the caller's own load_column calls
\* and clean says none of them fell into the running pass.
NoIteration ==
    [state |-> "none", pos |-> 0, out |-> <<>>, passes |-> <<>>, loads |-> 0,
     clean |-> TRUE]

\* No drift analysis is under way.
DriftIdle ==
    /\ a_orig = <<>>
    /\ a_new = <<>>
    /\ a_period = 0
    /\ a_kind = "none"
    /\ a_call = [op |-> "none", ret |-> None]

\* The datasets of process_columns are not ColumnarDataFrames.
NoStores ==
    /\ k_orig = None
    /\ k_new = None
    /\ k_loads = <<>>

\* No process_columns run is under way.
OrchIdle ==
    /\ NoStores
    /\ o_orig = <<>>
    /\ o_new = <<>>
    /\ o_config = <<>>
    /\ o_idx = 0
    /\ o_final = <<>>
    /\ o_pc = "none"
    /\ o_log = [op |-> "none"]

\* No profile reduction is under way.
ReduceIdle ==
    /\ r_report = <<>>
    /\ r_call = [op |-> "none", ret |-> None]

StoreInit ==
    /\ source_df \in Datasets
    /\ store = NewStore(source_df)
    /\ trace = <<>>
    /\ last = NoCall
    /\ n_reads = 0
    /\ n_rmtree = 0
    /\ n_del = 0
    /\ n_store = 0
    /\ mutated = {}
    /\ it = NoIteration
    /\ DriftIdle
    /\ ReduceIdle
    /\ OrchIdle

LoadColumn(name) ==
    /\ Len(trace) < MaxCalls
    /\ LET r == load_column(store, name)
       IN  /\ store' = r.self
           /\ last' = [op |-> "load_column", arg |-> name, ret |-> r.ret,
                       wrote |-> r.wrote, resident |-> store.current_column_name]
           /\ n_reads' = IF r.read THEN n_reads + 1 ELSE n_reads
    /\ trace' = Append(trace, name)
    /\ UNCHANGED <<source_df, n_rmtree, n_del, n_store, mutated, it, driftVars, reduceVars, orchVars>>

\* The caller changes the frame load_column returned, which is the object
\* the store holds as current_column.
CallerMutates(v) ==
    /\ store.current_column_name # NoName
    /\ store.current_column.rows # <<v>>
    /\ store' = [store EXCEPT !.current_column.rows = <<v>>]
    /\ mutated' = mutated \cup {store.current_column_name}
    /\ UNCHANGED <<source_df, trace, last, n_reads, n_rmtree, n_del, n_store, it, driftVars, reduceVars, orchVars>>

Dispose ==
    /\ n_del < MaxDel
    /\ LET r == del_store(store)
       IN  /\ store' = r.self
           /\ last' = [op |-> "__del__", arg |-> NoName, ret |-> r.ret,
                       wrote |-> FALSE, resident |-> store.current_column_name]
           /\ n_rmtree' = IF r.removed THEN n_rmtree + 1 ELSE n_rmtree
    /\ n_del' = n_del + 1
    /\ UNCHANGED <<source_df, trace, n_reads, n_store, mutated, it, driftVars, reduceVars, orchVars>>

\* A dataset of the same columns with every value changed.
Flipped(df) ==
    [columns |-> df.columns,
     data |-> [c \in Range(df.columns) |-> <<1 - df.data[c][1]>>]]

\* A dataset without its last column.
WithoutLast(df) ==
    LET cs == SubSeq(df.columns, 1, Len(df.columns) - 1)
    IN  [columns |-> cs, data |-> [c \in Range(cs) |-> df.data[c]]]

\* The frames a client passes to store_data on a store made from df: df
\* again, other values for the same columns, and a frame that lacks a column.
StoreDataInputs(df) == {df, Flipped(df), WithoutLast(Flipped(df))}

\* The client calls the public store_data(df) on the store it holds.
CallStoreData(df) ==
    /\ n_store < MaxStoreData
    /\ LET r == store_data(store, df)
       IN  /\ store' = r.self
           /\ last' = [op |-> "store_data", arg |-> NoName, ret |-> r.ret,
                       wrote |-> FALSE, resident |-> store.current_column_name]
    /\ n_store' = n_store + 1
    /\ UNCHANGED <<source_df, trace, n_reads, n_rmtree, n_del, mutated, it, driftVars, reduceVars, orchVars>>

StoreNext ==
    \/ \E name \in RequestNames : LoadColumn(name)
    \/ \E v \in CellValues : CallerMutates(v)

\* A client that only loads columns and edits what it was handed.
SpecStore == StoreInit /\ [][StoreNext]_vars

\* load_column in the lifecycle specification, where the store may have
\* been disposed of before the call.
LifeLoad(name) ==
    /\ Len(trace) < MaxLifeCalls
    /\ LET r == load_column(store, name)
       IN  /\ store' = r.self
           /\ last' = [op |-> "load_column", arg |-> name, ret |-> r.ret,
                       wrote |-> r.wrote, resident |-> store.current_column_name]
           /\ n_reads' = IF r.read THEN n_reads + 1 ELSE n_reads
    /\ trace' = Append(trace, name)
    /\ UNCHANGED <<source_df, n_rmtree, n_del, n_store, mutated, it, driftVars, reduceVars, orchVars>>

LifeNext ==
    \/ \E name \in RequestNames : LifeLoad(name)
    \/ Dispose
    \/ \E v \in CellValues : CallerMutates(v)
    \/ \E df \in StoreDataInputs(source_df) : CallStoreData(df)

\* A client that uses the whole public interface in a short run: it loads
\* columns, edits what it was handed, stores data again and runs the
\* finaliser, explicitly or by dropping the last reference.
SpecLife == StoreInit /\ [][LifeNext]_vars

(***************************************************************************)
(* Iteration: __iter__ is a generator; each next() runs the for loop up to *)
(* its yield, or to its end.                                               *)
(***************************************************************************)
\* iter(store): a new generator, whose body has not started.
IterStart ==
    /\ it.state \in {"none", "done"}
    /\ Len(it.passes) < MaxPasses
    /\ it' = [it EXCEPT !.state = "running", !.pos = 1, !.out = <<>>, !.clean = TRUE]
    /\ UNCHANGED <<store, source_df, trace, last, n_reads, n_rmtree, n_del, n_store, mutated>>
    /\ UNCHANGED <<driftVars, reduceVars, orchVars>>

\* next(): yield self.load_column(col) for the next col of self.columns.
IterYield ==
    /\ it.state = "running"
    /\ it.pos <= Len(IterColumns(store))
    /\ LET col == IterColumns(store)[it.pos]
           r == load_column(store, col)
       IN  /\ store' = r.self
           /\ last' = [op |-> "load_column", arg |-> col, ret |-> r.ret,
                       wrote |-> r.wrote, resident |-> store.current_column_name]
           /\ n_reads' = IF r.read THEN n_reads + 1 ELSE n_reads
           /\ trace' = Append(trace, col)
           /\ it' = IF IsRaised(r.ret)
                    THEN [it EXCEPT !.state = "raised"]
                    ELSE [it EXCEPT !.pos = it.pos + 1,
                                    !.out = Append(it.out,
                                        [name |-> col, frame |-> r.ret,
                                         wrote |-> r.wrote,
                                         evicted |-> IF r.wrote
                                                     THEN store.current_column_name
                                                     ELSE NoName])]
    /\ UNCHANGED <<source_df, n_rmtree, n_del, n_store, mutated, driftVars, reduceVars, orchVars>>

\* next() when the for loop is exhausted: StopIteration.
IterStop ==
    /\ it.state = "running"
    /\ it.pos > Len(IterColumns(store))
    /\ it' = [it EXCEPT !.state = "done",
                        !.passes = Append(it.passes,
                                          [out |-> it.out, clean |-> it.clean])]
    /\ UNCHANGED <<store, source_df, trace, last, n_reads, n_rmtree, n_del, n_store, mutated>>
    /\ UNCHANGED <<driftVars, reduceVars, orchVars>>

\* The caller's own load_column, before, between or inside the passes.
IterLoad(name) ==
    /\ it.loads < MaxIterLoads
    /\ LET r == load_column(store, name)
       IN  /\ store' = r.self
           /\ last' = [op |-> "load_column", arg |-> name, ret |-> r.ret,
                       wrote |-> r.wrote, resident |-> store.current_column_name]
           /\ n_reads' = IF r.read THEN n_reads + 1 ELSE n_reads
    /\ trace' = Append(trace, name)
    /\ it' = [it EXCEPT !.loads = it.loads + 1,
                        !.clean = it.clean /\ it.state # "running"]
    /\ UNCHANGED <<source_df, n_rmtree, n_del, n_store, mutated, driftVars, reduceVars, orchVars>>

IterNext ==
    \/ IterStart
    \/ IterYield
    \/ IterStop
    \/ \E name \in RequestNames : IterLoad(name)

\* A client that iterates the store, more than once, and loads columns.
SpecIter == StoreInit /\ [][IterNext]_vars

(***************************************************************************)
(* Drift analysis (trend.py)                                               *)
(*                                                                         *)
(* A frame is a function from column names to equally long sequences of    *)
(* values.  A dict is a function on its keys; {} is the empty function.    *)
(***************************************************************************)
EmptyDict == <<>>

\* Series.unique(): the distinct values in order of first appearance.
RECURSIVE Unique(_)
Unique(s) ==
    IF s = <<>> THEN <<>>
    ELSE LET init == Unique(SubSeq(s, 1, Len(s) - 1))
             x == s[Len(s)]
         IN  IF x \in Range(init) THEN init ELSE Append(init, x)

\* list(a_set): the set's elements in whichever order iteration gives.
ListsOf(S) == {l \in Arrangements(S) : Len(l) = Cardinality(S)}

\* The difference taken the wrong way round.
SetDifference_swapped(A, B) == B \ A

\* new_values - original_values
SetDifference(A, B) == A \ B

\* detect_new_categorical_values: the values it may return (one per order
\* list() may give the new entries), or the exception raised.
detect_new_categorical_values(original_df, new_df, column_name) ==
    IF column_name \notin DOMAIN original_df \/ column_name \notin DOMAIN new_df
    THEN {Raised("KeyError")}
    ELSE LET original_values == Range(Unique(original_df[column_name]))
             new_values == Range(Unique(new_df[column_name]))
             new_entries == SetDifference(new_values, original_values)
         IN  IF new_entries # {}
             THEN {[new_values |-> l] : l \in ListsOf(new_entries)}
             ELSE {EmptyDict}

\* An undefined position of a series, and a defined one.
NaN == [nan |-> TRUE]
Num(v) == [v |-> v]

RECURSIVE SumRange(_, _, _)
SumRange(x, lo, hi) == IF lo > hi THEN 0 ELSE x[lo] + SumRange(x, lo + 1, hi)

\* statsmodels' two-sided convolution filter at position i, for the filter
\* seasonal_decompose builds from period: [0.5, 1, ..., 1, 0.5] / period when
\* period is even, [1, ..., 1] / period when it is odd.  The value is kept
\* multiplied by 2 * period, so that it is an integer; positions the window
\* does not cover are NaN.
TrendAt(x, i, period) ==
    LET h == period \div 2
    IN  IF i - h < 1 \/ i + h > Len(x) THEN NaN
        ELSE IF period % 2 = 0
             THEN Num(x[i - h] + x[i + h] + 2 * SumRange(x, i - h + 1, i + h - 1))
             ELSE Num(2 * SumRange(x, i - h, i + h))

\* seasonal_decompose(x, period=period): its trend component, or the
\* ValueError it raises when x has fewer than 2 * period observations.
seasonal_decompose(x, period) ==
    IF Len(x) < 2 * period
    THEN Raised("ValueError")
    ELSE [trend |-> [i \in 1..Len(x) |-> TrendAt(x, i, period)]]

\* Series.dropna()
DropNa(s) == SelectSeq(s, LAMBDA e : e # NaN)

\* scipy.stats.wilcoxon(x, y).  When every difference x[i] - y[i] is zero
\* the test is undefined: scipy up to 1.12 raises ValueError, later releases
\* return a NaN p-value; the repository pins no release, so both are
\* possible.  Otherwise the p-value is some number, of which the model keeps
\* only whether it is below the threshold the caller compares it with.
wilcoxon(x, y) ==
    IF \A i \in DOMAIN x : x[i].v - y[i].v = 0
    THEN {Raised("ValueError"), [pvalue |-> "nan"]}
    ELSE {[pvalue |-> "below"], [pvalue |-> "not_below"]}

\* trend_change_pvalue < 0.05
BelowThreshold(pvalue) == pvalue = "below"

\* analyze_trend_changes: the values it may return or the exception raised.
analyze_trend_changes(original_df, new_df, column_name, time_column, period) ==
    IF \/ time_column \notin DOMAIN original_df
       \/ column_name \notin DOMAIN original_df \ {time_column}
       \/ time_column \notin DOMAIN new_df
       \/ column_name \notin DOMAIN new_df \ {time_column}
    THEN {Raised("KeyError")}
    ELSE LET combined_series == original_df[column_name] \o new_df[column_name]
             decomposition == seasonal_decompose(combined_series, period)
         IN  IF IsRaised(decomposition) THEN {decomposition}
             ELSE LET trend == DropNa(decomposition.trend)
                  IN  IF Len(trend) > 1
                      THEN {IF IsRaised(w) THEN w
                            ELSE [trend_significant_change |->
                                     BelowThreshold(w.pvalue)] :
                            w \in wilcoxon(SubSeq(trend, 1, Len(trend) - 1),
                                           SubSeq(trend, 2, Len(trend)))}
                      ELSE {[trend_significant_change |-> FALSE]}

(***************************************************************************)
(* The drift functions applied to bounded inputs: a column "x" of          *)
(* categories or of numbers, in frames with or without the time column "t".*)
(***************************************************************************)
SeqsUpTo(S, n) == UNION {[1..k -> S] : k \in 0..n}

Categories == {"a", "b", "c"}
Numbers == {0, 1}

MkFrame(values, with_time) ==
    IF with_time
    THEN [c \in {"t", "x"} |-> IF c = "t" THEN [i \in 1..Len(values) |-> i]
                               ELSE values]
    ELSE [c \in {"x"} |-> values]

CategoricalInputs ==
    /\ \E o \in SeqsUpTo(Categories, MaxCatLen), n \in SeqsUpTo(Categories, MaxCatLen) :
          /\ a_orig = MkFrame(o, TRUE)
          /\ a_new = MkFrame(n, TRUE)
    /\ a_period = 1
    /\ a_kind = "categorical"

NumericInputs ==
    /\ \E o \in SeqsUpTo(Numbers, MaxSeriesLen), n \in SeqsUpTo(Numbers, MaxSeriesLen),
          ot \in BOOLEAN, nt \in BOOLEAN :
          /\ a_orig = MkFrame(o, ot)
          /\ a_new = MkFrame(n, nt)
    /\ a_period \in 1..MaxPeriod
    /\ a_kind = "numeric"

StoreIdle ==
    /\ source_df = [columns |-> <<>>, data |-> <<>>]
    /\ store = NewStore([columns |-> <<>>, data |-> <<>>])
    /\ trace = <<>>
    /\ last = NoCall
    /\ n_reads = 0
    /\ n_rmtree = 0
    /\ n_del = 0
    /\ n_store = 0
    /\ mutated = {}
    /\ it = NoIteration

DriftInit ==
    /\ CategoricalInputs \/ NumericInputs
    /\ a_call = [op |-> "none", ret |-> None]
    /\ StoreIdle
    /\ ReduceIdle
    /\ OrchIdle

DetectNew ==
    /\ a_call.op = "none"
    /\ \E r \in detect_new_categorical_values(a_orig, a_new, "x") :
          a_call' = [op |-> "detect_new_categorical_values", ret |-> r]
    /\ UNCHANGED <<a_orig, a_new, a_period, a_kind, storeVars, reduceVars, orchVars>>

AnalyzeTrend ==
    /\ a_call.op = "none"
    /\ a_kind = "numeric"
    /\ \E r \in analyze_trend_changes(a_orig, a_new, "x", "t", a_period) :
          a_call' = [op |-> "analyze_trend_changes", ret |-> r]
    /\ UNCHANGED <<a_orig, a_new, a_period, a_kind, storeVars, reduceVars, orchVars>>

DriftNext == DetectNew \/ AnalyzeTrend

SpecDrift == DriftInit /\ [][DriftNext]_vars

(***************************************************************************)
(* Profile reduction (profiling.py)                                        *)
(*                                                                         *)
(* A Python dict is a sequence of <<key, value>> pairs with distinct keys, *)
(* in insertion order.  A value is a scalar, Rat(n, d) for the number n/d  *)
(* (the int n when d = 1), Flt(n) for the float n.0, Bool(b), Str(s), NaN  *)
(* or Inf(sign), or a nested dict Dict(items).  Both(first, second) is the *)
(* cell of a row under a name that two columns of a frame have.            *)
(***************************************************************************)
Rat(n, d) == [num |-> n, den |-> d]
Flt(n) == [num |-> n, den |-> 1, float |-> TRUE]
Both(first, second) == [both |-> <<first, second>>]
Bool(b) == [bool |-> b]
Str(s) == [str |-> s]
Inf(sign) == [inf |-> sign]
Dict(items) == [dict |-> items]
True == Bool(TRUE)

\* isinstance(value, dict)
IsDict(v) == "dict" \in DOMAIN v

DKeys(d) == {d[i][1] : i \in DOMAIN d}

\* key in d
DHas(d, k) == k \in DKeys(d)

\* d[key]
DGet(d, k) == d[CHOOSE i \in DOMAIN d : d[i][1] = k][2]

\* The value of the last item of items that has key k.
LastValue(items, k) ==
    items[CHOOSE i \in DOMAIN items :
              /\ items[i][1] = k
              /\ \A j \in DOMAIN items : j > i => items[j][1] # k][2]

\* dict(items): a repeated key keeps its first place and its last value.
DictOf(items) ==
    LET indexed == [i \in DOMAIN items |-> <<i, items[i][1]>>]
        firsts == SelectSeq(indexed,
                            LAMBDA p : \A j \in 1..(p[1] - 1) : items[j][1] # p[2])
    IN  [n \in DOMAIN firsts |-> <<firsts[n][2], LastValue(items, firsts[n][2])>>]

\* The lists parts[lo], ..., parts[hi] joined in that order.
RECURSIVE Extend(_, _, _)
Extend(parts, lo, hi) ==
    IF lo > hi THEN <<>>
    ELSE IF lo = hi THEN parts[lo]
    ELSE LET mid == (lo + hi) \div 2
         IN  Extend(parts, lo, mid) \o Extend(parts, mid + 1, hi)

\* A filter that keeps a whitelisted nested value whole.
filter_nested_fields_shallow(details, keep) ==
    SelectSeq(details, LAMBDA kv : DHas(keep, kv[1]))

RECURSIVE filter_nested_fields(_, _)

\* A filter that puts the items of a filtered nested dict into the dict
\* under construction itself (filtered.update(...)) and not under their key.
filter_nested_fields_merged(details, keep) ==
    LET kept == SelectSeq(details, LAMBDA kv : DHas(keep, kv[1]))
        parts == [i \in DOMAIN kept |->
                    IF IsDict(kept[i][2]) /\ IsDict(DGet(keep, kept[i][1]))
                    THEN filter_nested_fields(kept[i][2].dict,
                                              DGet(keep, kept[i][1]).dict)
                    ELSE <<kept[i]>>]
    IN  DictOf(Extend(parts, 1, Len(kept)))

\* filter_nested_fields(details, fields_to_keep): the items of details whose
\* key is in fields_to_keep, in their order, a nested dict filtered in turn.
filter_nested_fields(details, keep) ==
    LET kept == SelectSeq(details, LAMBDA kv : DHas(keep, kv[1]))
    IN  [i \in DOMAIN kept |->
            LET key == kept[i][1]
                value == kept[i][2]
            IN  IF IsDict(value) /\ IsDict(DGet(keep, key))
                THEN <<key, Dict(filter_nested_fields(value.dict,
                                                      DGet(keep, key).dict))>>
                ELSE <<key, value>>]

\* flatten_dict(data, parent_key, sep='_'); FlattenItems is its items list:
\* what each item of data extends or appends to it.
RECURSIVE FlattenItems(_, _)
RECURSIVE flatten_dict(_, _)

\* A flattening that forgets the parent key.
FlattenItems_bare(data, parent_key) ==
    LET parts ==
            [i \in DOMAIN data |->
                IF IsDict(data[i][2]) THEN flatten_dict(data[i][2].dict, data[i][1])
                ELSE <<data[i]>>]
    IN  Extend(parts, 1, Len(data))

FlattenItems(data, parent_key) ==
    LET parts ==
            [i \in DOMAIN data |->
                LET k == data[i][1]
                    v == data[i][2]
                    new_key == IF parent_key # "" THEN parent_key \o "_" \o k ELSE k
                IN  IF IsDict(v) THEN flatten_dict(v.dict, new_key)
                    ELSE <<<<new_key, v>>>>]
    IN  Extend(parts, 1, Len(data))

flatten_dict(data, parent_key) == DictOf(FlattenItems(data, parent_key))

\* {"name": True, ...} for the names given.
Terminals(names) == [i \in DOMAIN names |-> <<names[i], True>>]

ChiSquaredFields == <<"chi_squared", Dict(Terminals(<<"statistic", "pvalue">>))>>

GapStatsFields ==
    <<"gap_stats", Dict(Terminals(<<"min", "max", "mean", "std", "n_gaps">>))>>

\* fields_to_keep in filter_profile_data
fields_to_keep ==
    << <<"Categorical", Dict(
            Terminals(<<"n", "n_distinct", "p_distinct", "is_unique", "n_unique",
                        "p_unique", "ordering", "n_missing", "p_missing",
                        "memory_size", "imbalance", "max_length", "mean_length",
                        "median_length", "min_length">>)
            \o <<ChiSquaredFields>>)>>,
       <<"TimeSeries", Dict(
            Terminals(<<"n", "n_distinct", "p_distinct", "is_unique", "n_unique",
                        "p_unique", "ordering", "n_missing", "p_missing",
                        "memory_size", "mean", "std", "variance", "min", "max",
                        "kurtosis", "skewness", "sum", "mad", "range", "seasonal",
                        "stationary">>)
            \o <<ChiSquaredFields, GapStatsFields>>)>>,
       <<"Numeric", Dict(
            Terminals(<<"n", "n_distinct", "p_distinct", "is_unique", "n_unique",
                        "p_unique", "ordering", "n_missing", "p_missing",
                        "memory_size", "mean", "std", "variance", "min", "max",
                        "kurtosis", "skewness", "sum", "mad", "range", "iqr", "cv",
                        "p_zeros">>)
            \o <<ChiSquaredFields>>)>> >>

\* data_type in fields_to_keep hashes data_type: a type that is a mapping
\* is unhashable and the test raises TypeError.
UnhashableType(details) ==
    DHas(details, "type") /\ IsDict(DGet(details, "type"))

\* Whether filter_profile_data raises on the report: one of its variables
\* has an unhashable type.
FilterRaises(profile_data) ==
    /\ DHas(profile_data, "variables")
    /\ \E i \in DOMAIN DGet(profile_data, "variables").dict :
          UnhashableType(DGet(profile_data, "variables").dict[i][2].dict)

\* The loop of filter_profile_data over the variables of the report.
RECURSIVE FilterVariables(_)
FilterVariables(variables) ==
    IF \E i \in DOMAIN variables : UnhashableType(variables[i][2].dict)
    THEN Raised("TypeError")
    ELSE IF variables = <<>> THEN <<>>
    ELSE LET variable == Head(variables)[1]
             details == Head(variables)[2].dict
             rest == FilterVariables(Tail(variables))
         IN  IF /\ DHas(details, "type")
                /\ "str" \in DOMAIN DGet(details, "type")
                /\ DHas(fields_to_keep, DGet(details, "type").str)
             THEN <<<<variable,
                      Dict(filter_nested_fields(
                          details,
                          DGet(fields_to_keep, DGet(details, "type").str).dict))>>>>
                  \o rest
             ELSE rest

\* filter_profile_data(profile_data)
filter_profile_data(profile_data) ==
    FilterVariables(IF DHas(profile_data, "variables")
                    THEN DGet(profile_data, "variables").dict
                    ELSE <<>>)

\* The keys of the rows, each once, in order of first appearance.
RECURSIVE ColumnUnion(_)
ColumnUnion(rows) ==
    IF rows = <<>> THEN <<>>
    ELSE LET init == ColumnUnion(SubSeq(rows, 1, Len(rows) - 1))
             row == rows[Len(rows)][2]
         IN  init \o SelectSeq([i \in DOMAIN row |-> row[i][1]],
                               LAMBDA k : k \notin Range(init))

\* The least number of a non-empty set of numbers.
Least(S) == CHOOSE p \in S : \A q \in S : p <= q

(***************************************************************************)
(* Arithmetic of columns, as pandas does it by dtype. A column of numbers  *)
(* (int64, float64) or of bools is computed by numpy: NaN in gives NaN     *)
(* out, x / 0 is inf, -inf or NaN, inf - inf and 0 * inf are NaN, a        *)
(* comparison with NaN is False, True and False count as 1 and 0. A column *)
(* that holds a string, or bools next to other values, has dtype object    *)
(* and is computed value by value in Python, where x / 0 raises and a      *)
(* string times a whole number is a repetition; a TypeError of that first  *)
(* attempt is caught and the operation done again on the rows where both   *)
(* operands are not null.                                                  *)
(***************************************************************************)
IsNum(c) == "num" \in DOMAIN c

IsNaN(c) == "nan" \in DOMAIN c

IsInf(c) == "inf" \in DOMAIN c

IsStr(c) == "str" \in DOMAIN c

IsBool(c) == "bool" \in DOMAIN c

\* The cell as an operand: a bool is the number 1 or 0.
Operand(c) ==
    IF IsBool(c) THEN [num |-> IF c.bool THEN 1 ELSE 0, den |-> 1] ELSE c

\* The operand is a float: a finite number, an infinity or NaN.
IsFloat(c) == IsNum(c) \/ IsInf(c) \/ IsNaN(c)

\* The cell is an int.
IsInt(c) == IsNum(c) /\ c.den = 1 /\ "float" \notin DOMAIN c

\* The number as a float: the whole number n is n.0.
AsFloat(c) == IF IsInt(c) THEN Flt(c.num) ELSE c

\* The sign of an operand that is not NaN.
SignOf(c) ==
    IF IsInf(c) THEN c.inf
    ELSE IF c.num > 0 THEN 1 ELSE IF c.num < 0 THEN -1 ELSE 0

Abs(n) == IF n < 0 THEN -n ELSE n

RECURSIVE Gcd(_, _)
Gcd(a, b) == IF b = 0 THEN a ELSE Gcd(b, a % b)

\* n/d in lowest terms with a positive denominator (d # 0).
Normalize(n, d) ==
    LET g == Gcd(Abs(n), Abs(d))
        sgn == IF d < 0 THEN -1 ELSE 1
    IN  Rat(sgn * (n \div g), sgn * (d \div g))

\* A division that raises on a zero divisor, as that of two Python numbers.
FloatDiv_raising(x, y) ==
    LET a == Operand(x)
        b == Operand(y)
    IN  IF IsNaN(a) \/ IsNaN(b) THEN NaN
        ELSE IF IsInf(a)
             THEN IF IsInf(b) THEN NaN
                  ELSE Inf(IF b.num < 0 THEN -a.inf ELSE a.inf)
        ELSE IF IsInf(b) THEN Rat(0, 1)
        ELSE IF b.num = 0 THEN Raised("ZeroDivisionError")
        ELSE Normalize(a.num * b.den, a.den * b.num)

\* numpy's x / y on two cells that are numbers or bools.
FloatDiv(x, y) ==
    LET a == Operand(x)
        b == Operand(y)
    IN  IF IsNaN(a) \/ IsNaN(b) THEN NaN
        ELSE IF IsInf(a)
             THEN IF IsInf(b) THEN NaN
                  ELSE Inf(IF b.num < 0 THEN -a.inf ELSE a.inf)
        ELSE IF IsInf(b) THEN Rat(0, 1)
        ELSE IF b.num = 0
             THEN IF a.num = 0 THEN NaN ELSE Inf(IF a.num > 0 THEN 1 ELSE -1)
        ELSE Normalize(a.num * b.den, a.den * b.num)

\* numpy's x * y on two cells that are numbers or bools.
FloatMul(x, y) ==
    LET a == Operand(x)
        b == Operand(y)
    IN  IF IsNaN(a) \/ IsNaN(b) THEN NaN
        ELSE IF IsInf(a) \/ IsInf(b)
             THEN IF SignOf(a) * SignOf(b) = 0 THEN NaN
                  ELSE Inf(SignOf(a) * SignOf(b))
        ELSE Normalize(a.num * b.num, a.den * b.den)

\* numpy's x - y on two cells that are numbers or bools.
FloatSub(x, y) ==
    LET a == Operand(x)
        b == Operand(y)
    IN  IF IsNaN(a) \/ IsNaN(b) THEN NaN
        ELSE IF IsInf(a)
             THEN IF IsInf(b) /\ b.inf = a.inf THEN NaN ELSE Inf(a.inf)
        ELSE IF IsInf(b) THEN Inf(-b.inf)
        ELSE Normalize(a.num * b.den - b.num * a.den, a.den * b.den)

\* x < y on two cells that are numbers or bools.
FloatLess(x, y) ==
    LET a == Operand(x)
        b == Operand(y)
    IN  IF IsNaN(a) \/ IsNaN(b) THEN Bool(FALSE)
        ELSE IF IsInf(a) THEN Bool(a.inf < 0 /\ ~(IsInf(b) /\ b.inf < 0))
        ELSE IF IsInf(b) THEN Bool(b.inf > 0)
        ELSE Bool(a.num * b.den < b.num * a.den)

\* The dtype pandas gives a column that holds these cells.
DtypeOf(cells) ==
    IF cells = <<>> THEN "object"
    ELSE IF \E r \in DOMAIN cells : ~IsFloat(Operand(cells[r])) THEN "object"
    ELSE IF \A r \in DOMAIN cells : IsBool(cells[r]) THEN "bool"
    ELSE IF \E r \in DOMAIN cells : IsBool(cells[r]) THEN "object"
    ELSE IF \A r \in DOMAIN cells : IsInt(cells[r]) THEN "int64"
    ELSE "float64"

\* A column as an operand, and a Python number as an operand.
Series(cells) == [cells |-> cells, dtype |-> DtypeOf(cells), scalar |-> FALSE]

Scalar(c) == [cells |-> <<c>>, dtype |-> DtypeOf(<<c>>), scalar |-> TRUE]

\* The value of the operand in row r.
At(s, r) == IF s.scalar THEN s.cells[1] ELSE s.cells[r]

\* The value of the operand in row r is a Python int or bool: a bool, or an
\* int of an int64 column or of an object column (the numbers of a float64
\* column are floats).
IsWhole(s, r) ==
    \/ IsBool(At(s, r))
    \/ /\ IsInt(At(s, r))
       /\ s.dtype \in {"int64", "object"}

\* The columns hold ints or bools only, so that numpy computes in ints.
IntDtypes(left, right) ==
    left.dtype \in {"int64", "bool"} /\ right.dtype \in {"int64", "bool"}

\* s repeated n times.
RECURSIVE Repeat(_, _)
Repeat(s, n) == IF n <= 0 THEN "" ELSE s \o Repeat(s, n - 1)

\* Python's x / y, x * y, x - y and x < y on the values of row r.
PyOp(op, left, right, r) ==
    LET x == At(left, r)
        y == At(right, r)
    IN  IF op = "mul" /\ IsStr(x) /\ ~IsStr(y) /\ IsWhole(right, r)
        THEN Str(Repeat(x.str, Operand(y).num))
        ELSE IF op = "mul" /\ IsStr(y) /\ ~IsStr(x) /\ IsWhole(left, r)
        THEN Str(Repeat(y.str, Operand(x).num))
        ELSE IF ~IsFloat(Operand(x)) \/ ~IsFloat(Operand(y))
        THEN Raised("TypeError")
        ELSE IF op = "div"
        THEN IF IsNum(Operand(y)) /\ Operand(y).num = 0
             THEN Raised("ZeroDivisionError")
             ELSE AsFloat(FloatDiv(x, y))
        ELSE IF op = "less" THEN FloatLess(x, y)
        ELSE LET value == IF op = "mul" THEN FloatMul(x, y) ELSE FloatSub(x, y)
             IN  IF IsWhole(left, r) /\ IsWhole(right, r) THEN value
                 ELSE AsFloat(value)

\* left op right on the rows 1..n: [exc |-> the exception raised or "none",
\* values |-> the resulting column].
Arith(op, left, right, n) ==
    IF left.dtype # "object" /\ right.dtype # "object"
    THEN IF op = "div" /\ left.dtype = "bool" /\ right.dtype = "bool"
         THEN [exc |-> "NotImplementedError", values |-> <<>>]
         ELSE [exc |-> "none",
               values |-> [r \in 1..n |->
                   LET x == At(left, r)
                       y == At(right, r)
                       value == IF op = "mul" THEN FloatMul(x, y)
                                ELSE FloatSub(x, y)
                   IN  IF op = "div" THEN AsFloat(FloatDiv(x, y))
                       ELSE IF op = "less" THEN FloatLess(x, y)
                       ELSE IF op = "mul" /\ left.dtype = "bool"
                                          /\ right.dtype = "bool"
                       THEN Bool(x.bool /\ y.bool)
                       ELSE IF IntDtypes(left, right) THEN value
                       ELSE AsFloat(value)]]
    ELSE LET first == [r \in 1..n |-> PyOp(op, left, right, r)]
             bad == {r \in 1..n : IsRaised(first[r])}
             mask == {r \in 1..n : ~IsNaN(At(left, r)) /\ ~IsNaN(At(right, r))}
         IN  IF bad = {} THEN [exc |-> "none", values |-> first]
             ELSE IF first[Least(bad)].raised # "TypeError" \/ op = "less"
             THEN [exc |-> first[Least(bad)].raised, values |-> <<>>]
             ELSE IF bad \cap mask # {}
             THEN [exc |-> first[Least(bad \cap mask)].raised, values |-> <<>>]
             ELSE [exc |-> "none",
                   values |-> [r \in 1..n |-> IF r \in mask THEN first[r] ELSE NaN]]

\* The outcome of an operation on one-row columns as a cell.
OneRow(result) ==
    IF result.exc # "none" THEN Raised(result.exc) ELSE result.values[1]

\* x[a] / x[b] on a frame of one row.
CellDiv(x, y) == OneRow(Arith("div", Series(<<x>>), Series(<<y>>), 1))

\* x[a] * x[b] on a frame of one row.
CellMul(x, y) == OneRow(Arith("mul", Series(<<x>>), Series(<<y>>), 1))

\* x - x[b] on a frame of one row, x a Python number.
CellSub(x, y) == OneRow(Arith("sub", Scalar(x), Series(<<y>>), 1))

\* x[a] < y on a frame of one row, y a Python number.
CellLess(x, y) == OneRow(Arith("less", Series(<<x>>), Scalar(y), 1))

\* The cell of the k-th of the columns that have the name the cell is under.
Part(cell, k) == IF "both" \in DOMAIN cell THEN cell.both[k] ELSE cell

\* The cell of row r of that column as pandas keeps it: the values of a
\* column are converted to its dtype, so that in a column of numbers that
\* holds a NaN, an infinity or a fraction (float64) an int n is the float
\* n.0.
AsDtype(df, r, c, k) ==
    IF DtypeOf([q \in DOMAIN df.rows |-> Part(df.rows[q][c], k)]) = "float64"
    THEN AsFloat(Part(df.rows[r][c], k))
    ELSE Part(df.rows[r][c], k)

\* The frame with the values of every column converted to its dtype.
AsDtypes(df) ==
    [columns |-> df.columns,
     rows |-> [r \in DOMAIN df.rows |->
                [c \in DOMAIN df.rows[r] |->
                   IF "both" \in DOMAIN df.rows[r][c]
                   THEN Both(AsDtype(df, r, c, 1), AsDtype(df, r, c, 2))
                   ELSE AsDtype(df, r, c, 1)]]]

\* The element of a set of one element.
The(S) == CHOOSE x \in S : TRUE

\* The index DataFrame.from_dict(orient='index') gives the frame: the
\* variables that have a key, a variable before another if its first column
\* comes first (fields are the columns).
IndexOf(flattened_data, fields) ==
    LET present == {i \in DOMAIN flattened_data : flattened_data[i][2] # <<>>}
        first == [i \in present |->
                    Least({p \in DOMAIN fields :
                             fields[p] \in DKeys(flattened_data[i][2])})]
        before == [i \in present |->
                     {j \in present : \/ first[j] < first[i]
                                       \/ (first[j] = first[i] /\ j < i)}]
    IN  [r \in 1..Cardinality(present) |->
            CHOOSE i \in present : Cardinality(before[i]) = r - 1]

\* The frame of those columns and that index after reset_index and rename,
\* every cell as flattened_data gives it.
Renamed(flattened_data, fields, index) ==
    LET names == IF "index" \in Range(fields) THEN "level_0" ELSE "column_name"
        columns == <<names>> \o [p \in DOMAIN fields |->
                      IF fields[p] = "index" THEN "column_name" ELSE fields[p]]
        value(r, p) ==
            LET item == flattened_data[index[r]]
            IN  IF p = 1 THEN Str(item[1])
                ELSE IF DHas(item[2], fields[p - 1]) THEN DGet(item[2], fields[p - 1])
                ELSE NaN
    IN  IF {"index", "level_0"} \subseteq Range(fields)
        THEN Raised("ValueError")
        ELSE [columns |-> columns,
              rows |-> [r \in DOMAIN index |->
                         [c \in Range(columns) |->
                            LET at == {p \in DOMAIN columns : columns[p] = c}
                            IN  IF Cardinality(at) = 1
                                THEN value(r, Least(at))
                                ELSE Both(value(r, Least(at)),
                                          value(r, Least(at \ {Least(at)})))]]]

\* pd.DataFrame.from_dict(flattened_data, orient='index'), reset_index and
\* rename.
FromDict(flattened_data) ==
    The({The({Renamed(flattened_data, fields, index) :
                index \in {IndexOf(flattened_data, fields)}}) :
           fields \in {ColumnUnion(flattened_data)}})

\* json_to_flat_dataframe(json_data): a frame is its column names and its
\* rows, each a function from the column names to cells; a cell a row has no
\* value for is NaN. DataFrame.from_dict(orient='index') turns the nested
\* dict inside out (column -> variable -> value): the columns are the keys
\* in order of first appearance, the index is the union of the variables of
\* each column, column after column, so a variable without any key has no
\* row and a variable comes before another if its first column does.
\* reset_index calls the new column index, or level_0 when there is a
\* column index already (ValueError when there is a level_0 too), and the
\* rename then gives the name column_name to the column called index; a
\* column that has that name already keeps it, and the frame has two.
\* The values of each column are then those of its dtype (AsDtypes).
json_to_flat_dataframe(json_data) ==
    The({IF IsRaised(df) THEN df ELSE AsDtypes(df) :
           df \in {FromDict(flattened_data) :
                     flattened_data \in
                        {[i \in DOMAIN json_data |->
                            <<json_data[i][1],
                              flatten_dict(json_data[i][2].dict, "")>>]}}})

\* The lambdas of calculate_observability_metrics, in their order: the
\* columns each reads, in the order it reads them, and what it computes.
Metrics ==
    << [name |-> "categorical_cardinality_ratio", op |-> "div",
        args |-> <<"n_distinct", "n">>],
       [name |-> "categorical_missingness_impact", op |-> "mul",
        args |-> <<"p_missing", "n_distinct">>],
       [name |-> "categorical_chi_squared_alert", op |-> "below_0.05",
        args |-> <<"chi_squared_pvalue">>],
       [name |-> "timeseries_gap_ratio", op |-> "div",
        args |-> <<"gap_stats_n_gaps", "n">>],
       [name |-> "timeseries_volatility_index", op |-> "div",
        args |-> <<"std", "mean">>],
       [name |-> "timeseries_trend_consistency", op |-> "div",
        args |-> <<"std", "mean">>],
       [name |-> "numeric_zero_ratio", op |-> "same", args |-> <<"p_zeros">>],
       [name |-> "numeric_outlier_indicator", op |-> "div",
        args |-> <<"range", "std">>],
       [name |-> "numeric_skewness_indicator", op |-> "same",
        args |-> <<"skewness">>],
       [name |-> "numeric_cv", op |-> "same", args |-> <<"cv">>],
       [name |-> "numeric_missing_impact", op |-> "mul",
        args |-> <<"p_missing", "mean">>],
       [name |-> "data_completeness", op |-> "one_minus",
        args |-> <<"p_missing">>] >>

\* x[c] succeeds: c is a column of the frame (else KeyError).
HasColumn(df, c) == c \in Range(df.columns)

\* x[c] for row: the cell, NaN where the frame has no such column.
Cell(row, c) == IF c \in DOMAIN row THEN row[c] ELSE NaN

\* The column c of the frame as an operand.
Column(df, c) == Series([r \in DOMAIN df.rows |-> Cell(df.rows[r], c)])

\* What the lambda of metric m computes on the frame.
Compute(m, df) ==
    LET n == Len(df.rows)
        x == [i \in DOMAIN m.args |-> Column(df, m.args[i])]
    IN  CASE m.op = "div" -> Arith("div", x[1], x[2], n)
          [] m.op = "mul" -> Arith("mul", x[1], x[2], n)
          [] m.op = "below_0.05" -> Arith("less", x[1], Scalar(Rat(5, 100)), n)
          [] m.op = "same" -> [exc |-> "none", values |-> x[1].cells]
          [] m.op = "one_minus" -> Arith("sub", Scalar(Rat(1, 1)), x[1], n)

\* df.assign(name=lambda x: ...) for one metric.
AssignMetric(df, m) ==
    IF \E i \in DOMAIN m.args : ~HasColumn(df, m.args[i])
    THEN Raised("KeyError")
    ELSE LET result == Compute(m, df)
         IN  IF result.exc # "none"
             THEN Raised(result.exc)
             ELSE [columns |-> IF m.name \in Range(df.columns) THEN df.columns
                               ELSE Append(df.columns, m.name),
                   rows |-> [r \in DOMAIN df.rows |->
                              [c \in DOMAIN df.rows[r] \cup {m.name} |->
                                 IF c = m.name THEN result.values[r]
                                 ELSE df.rows[r][c]]]]

RECURSIVE AssignAll(_, _)
AssignAll(df, ms) ==
    IF ms = <<>> THEN df
    ELSE LET next == AssignMetric(df, Head(ms))
         IN  IF IsRaised(next) THEN next ELSE AssignAll(next, Tail(ms))

\* calculate_observability_metrics(df)
calculate_observability_metrics(df) == AssignAll(df, Metrics)

\* extract_profile_data(data_dict)
extract_profile_data(data_dict) ==
    LET filtered_data == filter_profile_data(data_dict)
        flattened_data == json_to_flat_dataframe(filtered_data)
    IN  IF FilterRaises(data_dict) THEN filtered_data
        ELSE IF IsRaised(flattened_data) THEN flattened_data
        ELSE calculate_observability_metrics(flattened_data)

(***************************************************************************)
(* The raw reports the profiler hands over: per variable a type, the       *)
(* statistics of that type less some that the profiler left out, and       *)
(* entries the whitelists do not name.                                     *)
(***************************************************************************)
\* The value the profiler reports for a statistic; degenerate makes n, mean
\* and std zero.
StatValue(k, degenerate) ==
    CASE k = "n" -> Rat(IF degenerate THEN 0 ELSE 5, 1)
      [] k = "n_distinct" -> Rat(2, 1)
      [] k = "p_distinct" -> Rat(2, 5)
      [] k = "is_unique" -> Bool(FALSE)
      [] k = "ordering" -> True
      [] k = "p_unique" -> Rat(1, 5)
      [] k = "p_missing" -> Rat(1, 5)
      [] k = "mean" -> Rat(IF degenerate THEN 0 ELSE 10, 1)
      [] k = "std" -> Rat(IF degenerate THEN 0 ELSE 2, 1)
      [] k = "range" -> Rat(6, 1)
      [] k = "cv" -> Rat(1, 5)
      [] k = "p_zeros" -> Rat(0, 1)
      [] k = "seasonal" -> True
      [] k = "stationary" -> Bool(FALSE)
      [] k = "chi_squared" ->
            Dict(<< <<"statistic", Rat(3, 1)>>, <<"pvalue", Rat(1, 100)>>,
                    <<"dof", Rat(1, 1)>> >>)
      [] k = "gap_stats" ->
            Dict(<< <<"min", Rat(1, 1)>>, <<"max", Rat(1, 1)>>,
                    <<"mean", Rat(1, 1)>>, <<"std", Rat(0, 1)>>,
                    <<"n_gaps", Rat(0, 1)>>, <<"gaps", Rat(0, 1)>> >>)
      [] OTHER -> Rat(1, 1)

ProfilerTypes == {"Categorical", "TimeSeries", "Numeric", "Boolean", "untyped"}

\* The statistics the profiler computes for a type.
ProfilerStats(type) ==
    LET family == IF DHas(fields_to_keep, type) THEN type ELSE "Categorical"
        keep == DGet(fields_to_keep, family).dict
    IN  [i \in DOMAIN keep |-> keep[i][1]]

\* The statistics a report may lack.
Droppable == {"n", "p_missing", "chi_squared"}

RawDetails(type, dropped, degenerate) ==
    LET stats == SelectSeq(ProfilerStats(type), LAMBDA k : k \notin dropped)
    IN  (IF type = "untyped" THEN <<>> ELSE << <<"type", Str(type)>> >>)
        \o [i \in DOMAIN stats |-> <<stats[i], StatValue(stats[i], degenerate)>>]
        \o << <<"hashable", True>>,
              <<"histogram", Dict(<< <<"counts", Rat(5, 1)>> >>)>> >>

VariableReports(name) ==
    {<<name, Dict(RawDetails(t, d, z))>> :
        t \in ProfilerTypes, d \in SUBSET Droppable, z \in BOOLEAN}

\* A report of the variables named, in that order.
RECURSIVE ReportsOf(_)
ReportsOf(names) ==
    IF names = <<>> THEN {<<>>}
    ELSE {<<v>> \o rest : v \in VariableReports(Head(names)),
                          rest \in ReportsOf(Tail(names))}

Reports ==
    {<< <<"analysis", Dict(<<>>)>> >>}
    \cup {<< <<"analysis", Dict(<<>>)>>, <<"variables", Dict(vs)>> >> :
            vs \in ReportsOf(<<>>) \cup ReportsOf(<<"a">>) \cup ReportsOf(<<"a", "b">>)}

ReduceInit ==
    /\ r_report \in Reports
    /\ r_call = [op |-> "none", ret |-> None]
    /\ StoreIdle
    /\ DriftIdle
    /\ OrchIdle

ExtractProfileData ==
    /\ r_call.op = "none"
    /\ r_call' = [op |-> "extract_profile_data", ret |-> extract_profile_data(r_report)]
    /\ UNCHANGED <<r_report, storeVars, driftVars, orchVars>>

ReduceNext == ExtractProfileData

SpecReduce == ReduceInit /\ [][ReduceNext]_vars

(***************************************************************************)
(* The stages of the reduction called one at a time, on the variables of   *)
(* the report and on small nested mappings and whitelists.                 *)
(***************************************************************************)
One == Rat(1, 1)

\* Pairs of a nested mapping and a whitelist: a nested value under a nested
\* whitelist entry, under a terminal entry, a scalar under a nested entry,
\* and three levels of nesting.
NestedSamples ==
    {[details |-> << <<"a", One>>, <<"b", Dict(<< <<"c", One>>, <<"d", One>> >>)>>,
                     <<"e", One>> >>,
      keep |-> << <<"a", True>>, <<"b", Dict(<< <<"c", True>> >>)>> >>],
     [details |-> << <<"a", Dict(<< <<"x", One>> >>)>>, <<"b", One>>, <<"c", One>> >>,
      keep |-> << <<"a", True>>, <<"b", Dict(<< <<"y", True>> >>)>> >>],
     [details |-> << <<"b", Dict(<< <<"c", Dict(<< <<"d", One>>, <<"e", One>> >>)>>,
                                    <<"f", One>> >>)>> >>,
      keep |-> << <<"b", Dict(<< <<"c", Dict(<< <<"d", True>> >>)>> >>)>> >>],
     [details |-> <<>>, keep |-> << <<"a", True>> >>]}

\* The statistics mappings of the variables of the report.
ReportDetails ==
    IF DHas(r_report, "variables")
    THEN {DGet(r_report, "variables").dict[i][2].dict :
             i \in DOMAIN DGet(r_report, "variables").dict}
    ELSE {}

\* The pairs filter_nested_fields is called on.
FilterInputs ==
    NestedSamples
    \cup {[details |-> d, keep |-> fields_to_keep[f][2].dict] :
             d \in ReportDetails, f \in DOMAIN fields_to_keep}

\* filter_nested_fields(details, keep), and the same filter applied to what
\* it returned.
FilterNestedFields ==
    /\ r_call.op = "none"
    /\ \E in \in FilterInputs :
          LET filtered == filter_nested_fields(in.details, in.keep)
          IN  r_call' = [op |-> "filter_nested_fields", details |-> in.details,
                         keep |-> in.keep, ret |-> filtered,
                         again |-> filter_nested_fields(filtered, in.keep)]
    /\ UNCHANGED <<r_report, storeVars, driftVars, orchVars>>

\* The columns the metrics read, as a frame has them.
MetricInputs ==
    <<"n_distinct", "n", "p_missing", "chi_squared_pvalue", "gap_stats_n_gaps",
      "std", "mean", "p_zeros", "range", "skewness", "cv">>

\* A row that has a number in every column the metrics read.
PlainRow ==
    [c \in {"column_name"} \cup Range(MetricInputs) |->
        CASE c = "column_name" -> Str("a")
          [] c = "n_distinct" -> Rat(2, 1)
          [] c = "n" -> Rat(5, 1)
          [] c \in {"p_missing", "cv"} -> Rat(1, 5)
          [] c = "chi_squared_pvalue" -> Rat(1, 100)
          [] c \in {"gap_stats_n_gaps", "p_zeros"} -> Rat(0, 1)
          [] c = "std" -> Rat(2, 1)
          [] c = "mean" -> Rat(10, 1)
          [] c = "range" -> Rat(6, 1)
          [] c = "skewness" -> Rat(1, 1)]

\* Frames of one row with an infinite cell: an infinite mean, an infinite
\* mean with nothing missing, an infinite p-value, an infinite count.
OddFrames ==
    {[columns |-> <<"column_name">> \o MetricInputs, rows |-> <<row>>] :
        row \in {[PlainRow EXCEPT !["mean"] = Inf(1)],
                 [PlainRow EXCEPT !["mean"] = Inf(-1), !["p_missing"] = Rat(0, 1)],
                 [PlainRow EXCEPT !["chi_squared_pvalue"] = Inf(-1)],
                 [PlainRow EXCEPT !["n"] = Inf(1), !["n_distinct"] = Inf(1)]}}

\* calculate_observability_metrics(df) on the frame the report flattens to,
\* or on a frame with an infinite cell.
CalculateObservabilityMetrics ==
    /\ r_call.op = "none"
    /\ \E df \in {json_to_flat_dataframe(filter_profile_data(r_report))}
                  \cup OddFrames :
          r_call' = [op |-> "calculate_observability_metrics", df |-> df,
                     ret |-> calculate_observability_metrics(df)]
    /\ UNCHANGED <<r_report, storeVars, driftVars, orchVars>>

\* A report with a mapping where the whitelist has a terminal entry, a
\* scalar where the whitelist has a nested entry, and a type that is a
\* number.
OddReports ==
    {<< <<"variables", Dict(<<
          <<"a", Dict(<< <<"type", Str("Categorical")>>,
                         <<"n", Dict(<< <<"low", One>>, <<"high", One>> >>)>>,
                         <<"chi_squared", One>>,
                         <<"histogram", One>> >>)>>,
          <<"b", Dict(<< <<"type", One>>, <<"n", One>> >>)>>,
          <<"c", Dict(<< <<"n", One>>, <<"type", Str("Numeric")>>,
                         <<"chi_squared", Dict(<<>>)>> >>)>> >>)>> >>}

\* filter_profile_data(profile_data)
FilterProfileData ==
    /\ r_call.op = "none"
    /\ \E profile_data \in {r_report} \cup OddReports :
          r_call' = [op |-> "filter_profile_data", profile_data |-> profile_data,
                     raised |-> FilterRaises(profile_data),
                     ret |-> filter_profile_data(profile_data)]
    /\ UNCHANGED <<r_report, storeVars, driftVars, orchVars>>

\* Nested mappings as such: a key that is the joined path of another leaf,
\* an empty nested mapping next to a mapping nested twice.
FlattenSamples ==
    {<< <<"a_b", One>>, <<"a", Dict(<< <<"b", Rat(2, 1)>> >>)>> >>,
     << <<"a", Dict(<<>>)>>, <<"b", Dict(<< <<"c", Dict(<< <<"d", One>> >>)>> >>)>> >>}

\* What flatten_dict is called on: the statistics of the variables of the
\* report as filter_profile_data leaves them (filtered), and other nested
\* mappings.
FlattenInputs ==
    {[data |-> filter_profile_data(r_report)[i][2].dict, filtered |-> TRUE] :
        i \in DOMAIN filter_profile_data(r_report)}
    \cup {[data |-> d, filtered |-> FALSE] :
             d \in FlattenSamples \cup {in.details : in \in NestedSamples}}

\* flatten_dict(data)
FlattenDict ==
    /\ r_call.op = "none"
    /\ \E in \in FlattenInputs :
          r_call' = [op |-> "flatten_dict", data |-> in.data,
                     filtered |-> in.filtered, ret |-> flatten_dict(in.data, "")]
    /\ UNCHANGED <<r_report, storeVars, driftVars, orchVars>>

StagesNext ==
    \/ FilterNestedFields
    \/ FilterProfileData
    \/ FlattenDict
    \/ CalculateObservabilityMetrics

SpecStages == ReduceInit /\ [][StagesNext]_vars

(***************************************************************************)
(* Column orchestration (column.py), on datasets held in memory            *)
(***************************************************************************)
\* result.update(other)
Update(result, other) ==
    [k \in DOMAIN result \cup DOMAIN other |->
        IF k \in DOMAIN other THEN other[k] ELSE result[k]]

\* df[[c1, c2, ...]]: the frame of those columns, or KeyError.
Select(df, cols) ==
    IF cols \subseteq DOMAIN df THEN [c \in cols |-> df[c]] ELSE Raised("KeyError")

\* A dispatch with the two branches exchanged.
DriftBranch_swapped(column_type) ==
    IF column_type = "categorical" THEN "analyze_trend_changes"
    ELSE IF column_type = "timeseries" THEN "detect_new_categorical_values"
    ELSE "none"

\* The if/elif of process_column on the declared type.
DriftBranch(column_type) ==
    IF column_type = "timeseries" THEN "analyze_trend_changes"
    ELSE IF column_type = "categorical" THEN "detect_new_categorical_values"
    ELSE "none"

\* ProfileReport(df, ...).to_json() for a frame of one column: a report of
\* that one variable; which statistics it holds is the profiler's business.
ProfileReports(column_name) ==
    {<< <<"analysis", Dict(<<>>)>>, <<"variables", Dict(<<v>>)>> >> :
        v \in VariableReports(column_name)}

\* extract_profile_data over every report the profiler may give of a column.
ProfileOutcomes ==
    [column_name \in {"t", "x", "y"} |->
        {extract_profile_data(report) : report \in ProfileReports(column_name)}]

\* run_ydata_profiling_report(df, type_schema): what it may return.
run_ydata_profiling_report(column_name) == ProfileOutcomes[column_name]

\* row.to_dict(): of two columns of one name the later one is kept.
ToDict(row) ==
    [c \in DOMAIN row |-> IF "both" \in DOMAIN row[c] THEN row[c].both[2] ELSE row[c]]

\* The end of process_column: result.update(profile_data.iloc[0].to_dict())
\* when the profile has a row, and the one-row frame of result.
MergeProfile(result, profile_data) ==
    IF IsRaised(profile_data) THEN profile_data
    ELSE IF profile_data.rows # <<>>
    THEN Update(result, ToDict(profile_data.rows[1]))
    ELSE result

\* process_column(original_df, new_df, config): every way the call may go,
\* each as [ret |-> the record returned or the exception raised,
\* called |-> the drift functions it called, result |-> the dict result as
\* the call left it].
process_column(original_df, new_df, config) ==
    LET result == [k \in {"column_name"} |-> Str(config.column_name)]
    IN  IF config.column_name \notin DOMAIN config.type_schema
        THEN {[ret |-> Raised("KeyError"), called |-> {}, result |-> result]}
        ELSE
        LET column_type == config.type_schema[config.column_name]
            branch == DriftBranch(column_type)
            drifts ==
                IF branch = "analyze_trend_changes"
                THEN analyze_trend_changes(original_df, new_df, config.column_name,
                                           config.time_column, config.period)
                ELSE IF branch = "detect_new_categorical_values"
                THEN detect_new_categorical_values(original_df, new_df,
                                                   config.column_name)
                ELSE {EmptyDict}
            called == IF branch = "none" THEN {} ELSE {branch}
        IN  UNION {
              IF IsRaised(d)
              THEN {[ret |-> d, called |-> called, result |-> result]}
              ELSE IF Select(new_df, {config.column_name}) = Raised("KeyError")
              THEN {[ret |-> Raised("KeyError"), called |-> called,
                     result |-> Update(result, d)]}
              ELSE {[ret |-> MergeProfile(Update(result, d), profile_data),
                     called |-> called,
                     result |-> IF IsRaised(profile_data) THEN Update(result, d)
                                ELSE MergeProfile(Update(result, d), profile_data)] :
                    profile_data \in run_ydata_profiling_report(config.column_name)}
              : d \in drifts}

\* The body of the loop of process_columns for one column that is not the
\* time column, on in-memory frames.
ColumnOutcomes(original_df, new_df, columns_config, column_name) ==
    LET column_config == [column_name |-> column_name,
                          time_column |-> columns_config.time_column,
                          period |-> columns_config.period,
                          type_schema |-> columns_config.type_schema]
        original_column_df ==
            Select(original_df, {columns_config.time_column, column_name})
        new_column_df == Select(new_df, {columns_config.time_column, column_name})
    IN  IF IsRaised(original_column_df) \/ IsRaised(new_column_df)
        THEN {[ret |-> Raised("KeyError"), called |-> {},
               result |-> [k \in {} |-> None], entered |-> FALSE]}
        ELSE {[ret |-> o.ret, called |-> o.called, result |-> o.result,
               entered |-> TRUE] :
              o \in process_column(original_column_df, new_column_df, column_config)}

(***************************************************************************)
(* process_columns as a loop over original_df.columns, one column a step.  *)
(***************************************************************************)
OrchNames == {"t", "x", "y"}
DeclaredTypes == {"categorical", "numeric", "timeseries", "text"}

\* What a column holds in the original rows and in the new rows: one value
\* throughout, or values that change and a value the original rows lack.
Contents ==
    {[original |-> <<1, 1>>, new |-> <<1, 1>>],
     [original |-> <<0, 1>>, new |-> <<1, 2>>]}

OrchInputs ==
    /\ \E cs \in Arrangements(OrchNames), content \in [OrchNames \ {"t"} -> Contents] :
          /\ o_orig = [columns |-> cs,
                       data |-> [c \in Range(cs) |->
                                   IF c = "t" THEN <<1, 2>> ELSE content[c].original]]
          /\ o_new = [columns |-> cs,
                      data |-> [c \in Range(cs) |->
                                  IF c = "t" THEN <<3, 4>> ELSE content[c].new]]
    /\ \E schema_names \in SUBSET (OrchNames \ {"t"}), period \in 1..MaxPeriod :
          \E type_schema \in [schema_names -> DeclaredTypes] :
              o_config = [time_column |-> "t", period |-> period,
                          type_schema |-> type_schema]
    /\ o_idx = 1
    /\ o_final = <<>>
    /\ o_pc = "loop"
    /\ o_log = [op |-> "none"]
    /\ StoreIdle
    /\ DriftIdle
    /\ ReduceIdle

\* process_columns called with two pandas frames.
OrchInit ==
    /\ OrchInputs
    /\ NoStores

\* for column_name in original_df.columns: the time column is passed over.
SkipTimeColumn ==
    /\ o_pc = "loop"
    /\ o_idx <= Len(o_orig.columns)
    /\ o_orig.columns[o_idx] = o_config.time_column
    /\ o_idx' = o_idx + 1
    /\ UNCHANGED <<o_orig, o_new, o_config, o_final, o_pc, o_log>>
    /\ UNCHANGED <<k_orig, k_new, k_loads>>
    /\ UNCHANGED <<storeVars, driftVars, reduceVars>>

\* One pass of the loop for a column to analyse: its record is appended, or
\* the exception leaves process_columns.
ProcessColumn ==
    /\ o_pc = "loop"
    /\ o_idx <= Len(o_orig.columns)
    /\ o_orig.columns[o_idx] # o_config.time_column
    /\ \E o \in ColumnOutcomes(o_orig.data, o_new.data, o_config, o_orig.columns[o_idx]) :
          /\ o_log' = [op |-> "process_column", column_name |-> o_orig.columns[o_idx],
                       ret |-> o.ret, called |-> o.called, result |-> o.result,
                       entered |-> o.entered]
          /\ IF IsRaised(o.ret)
             THEN /\ o_pc' = "raised"
                  /\ UNCHANGED <<o_idx, o_final>>
             ELSE /\ o_final' = Append(o_final, o.ret)
                  /\ o_idx' = o_idx + 1
                  /\ UNCHANGED o_pc
    /\ UNCHANGED <<o_orig, o_new, o_config>>
    /\ UNCHANGED <<k_orig, k_new, k_loads>>
    /\ UNCHANGED <<storeVars, driftVars, reduceVars>>

\* return final_report_df
ReturnReport ==
    /\ o_pc = "loop"
    /\ o_idx > Len(o_orig.columns)
    /\ o_pc' = "returned"
    /\ UNCHANGED <<o_orig, o_new, o_config, o_idx, o_final, o_log>>
    /\ UNCHANGED <<k_orig, k_new, k_loads>>
    /\ UNCHANGED <<storeVars, driftVars, reduceVars>>

OrchNext == SkipTimeColumn \/ ProcessColumn \/ ReturnReport

SpecOrch == OrchInit /\ [][OrchNext]_vars

(***************************************************************************)
(* process_columns on two ColumnarDataFrames: the isinstance branch.       *)
(***************************************************************************)
\* A pandas frame as process_column reads it: column name -> values.
AsFrame(frame) == [c \in Range(frame.cols) |-> frame.rows]

\* process_columns called with the two datasets wrapped in stores.
OrchStoreInit ==
    /\ OrchInputs
    /\ k_orig = NewStore(o_orig)
    /\ k_new = NewStore(o_new)
    /\ k_loads = <<>>

\* original_column_df = original_df.load_column(column_name), for a column to
\* analyse: the frame is the one the store holds resident afterwards, or the
\* exception leaves process_columns.
LoadOriginalColumn ==
    /\ o_pc = "loop"
    /\ o_idx <= Len(k_orig.columns)
    /\ k_orig.columns[o_idx] # o_config.time_column
    /\ LET column_name == k_orig.columns[o_idx]
           got == load_column(k_orig, column_name)
       IN  /\ k_orig' = got.self
           /\ k_loads' = Append(k_loads, [store |-> "original", name |-> column_name])
           /\ IF IsRaised(got.ret)
              THEN /\ o_log' = [op |-> "process_column", column_name |-> column_name,
                                ret |-> got.ret, called |-> {},
                                result |-> [k \in {} |-> None], entered |-> FALSE]
                   /\ o_pc' = "raised"
              ELSE /\ o_pc' = "original_loaded"
                   /\ UNCHANGED o_log
    /\ UNCHANGED <<o_orig, o_new, o_config, o_idx, o_final, k_new>>
    /\ UNCHANGED <<storeVars, driftVars, reduceVars>>

\* new_column_df = new_df.load_column(column_name)
LoadNewColumn ==
    /\ o_pc = "original_loaded"
    /\ LET column_name == k_orig.columns[o_idx]
           got == load_column(k_new, column_name)
       IN  /\ k_new' = got.self
           /\ k_loads' = Append(k_loads, [store |-> "new", name |-> column_name])
           /\ IF IsRaised(got.ret)
              THEN /\ o_log' = [op |-> "process_column", column_name |-> column_name,
                                ret |-> got.ret, called |-> {},
                                result |-> [k \in {} |-> None], entered |-> FALSE]
                   /\ o_pc' = "raised"
              ELSE /\ o_pc' = "new_loaded"
                   /\ UNCHANGED o_log
    /\ UNCHANGED <<o_orig, o_new, o_config, o_idx, o_final, k_orig>>
    /\ UNCHANGED <<storeVars, driftVars, reduceVars>>

\* process_column(original_column_df, new_column_df, column_config) on the
\* two frames loaded, which are the resident columns of the stores, and the
\* pd.concat: the record is appended, or the exception leaves
\* process_columns.
ProcessLoadedColumn ==
    /\ o_pc = "new_loaded"
    /\ LET column_name == k_orig.columns[o_idx]
           column_config == [column_name |-> column_name,
                             time_column |-> o_config.time_column,
                             period |-> o_config.period,
                             type_schema |-> o_config.type_schema]
       IN  \E o \in process_column(AsFrame(k_orig.current_column),
                                   AsFrame(k_new.current_column),
                                   column_config) :
              /\ o_log' = [op |-> "process_column",
                           column_name |-> column_name, ret |-> o.ret,
                           called |-> o.called, result |-> o.result,
                           entered |-> TRUE]
              /\ IF IsRaised(o.ret)
                 THEN /\ o_pc' = "raised"
                      /\ UNCHANGED <<o_idx, o_final>>
                 ELSE /\ o_final' = Append(o_final, o.ret)
                      /\ o_idx' = o_idx + 1
                      /\ o_pc' = "loop"
    /\ UNCHANGED <<o_orig, o_new, o_config, k_orig, k_new, k_loads>>
    /\ UNCHANGED <<storeVars, driftVars, reduceVars>>

OrchStoreNext ==
    \/ SkipTimeColumn
    \/ LoadOriginalColumn
    \/ LoadNewColumn
    \/ ProcessLoadedColumn
    \/ ReturnReport

SpecOrchStore == OrchStoreInit /\ [][OrchStoreNext]_vars

(***************************************************************************)
(* Claims about the ColumnarDataFrame                                      *)
(***************************************************************************)
StoredNames == Range(source_df.columns)

\* C1: in a sequence of load_column calls, while the caller has modified
\* nothing and has stored no data again, every load_column of a stored
\* column returns the values that column had at creation, the active slot
\* holds nothing or exactly the one column named by current_column_name, and
\* every such call is one disk read (so A, B, C, A is four reads).
C1_LoadRoundTrip ==
    /\ \/ store.current_column_name = NoName /\ store.current_column = None
       \/ /\ store.current_column_name \in StoredNames
          /\ store.current_column.cols = <<store.current_column_name>>
    /\ (last.op = "load_column" /\ last.arg \in StoredNames /\ mutated = {}
                                 /\ n_store = 0)
          => last.ret = Frame(source_df, last.arg)
    /\ n_reads = Cardinality({i \in DOMAIN trace : trace[i] \in StoredNames})

\* C1 witness: the calls A, B, C, A on a dataset whose columns differ, four
\* reads done and the last one returning A as created.
C1_Witness ==
    /\ trace = <<"A", "B", "C", "A">>
    /\ mutated = {}
    /\ n_reads = 4
    /\ source_df.data["A"] # source_df.data["B"]
    /\ source_df.data["B"] # source_df.data["C"]
    /\ last.ret = Frame(source_df, "A")
    /\ last.wrote

\* C6: load_column of a name that was not stored at creation raises
\* FileNotFoundError to its caller, whatever the active slot holds.
C6_NotFound ==
    (last.op = "load_column" /\ last.arg \notin StoredNames)
        => last.ret = Raised("FileNotFoundError")

\* C6 witness: a missing name was asked for while a column was resident.
C6_Witness ==
    /\ last.op = "load_column"
    /\ last.arg \notin StoredNames
    /\ last.resident \in StoredNames
    /\ last.ret = Raised("FileNotFoundError")
    /\ \E i \in DOMAIN trace : i < Len(trace) /\ trace[i] \notin StoredNames

\* C7 (as claimed): every disposal completes without error, and the
\* directory is removed once.
C7_DisposeIdempotent ==
    /\ n_rmtree <= 1
    /\ last.op = "__del__" => last.ret = None

\* C11 (as claimed): a load_column that fails raises to its caller and
\* leaves the active slot invalidated: the store no longer reports the
\* column that was resident before the call.
C11_FaultInvalidatesSlot ==
    (last.op = "load_column" /\ IsRaised(last.ret) /\ last.resident # NoName) =>
        /\ store.current_column_name # last.resident
        /\ store.current_column = None

\* C17: a load_column(name) that finds another column resident writes that
\* column, as it is in memory then, modified or not, to its own file and
\* only then reads; it writes nothing when the slot is empty or holds name;
\* unless the client stores data again files change in no other way, and
\* what a load returns is what the file
\* of its column holds, so a change made to a column before it was swapped
\* out is what a later load of it returns.
C17_WriteBackOnSwap ==
    [][/\ n_store' = n_store =>
            \A p \in DOMAIN store.disk :
                p # ColPath(store.current_column_name) =>
                    (p \in DOMAIN store'.disk /\ store'.disk[p] = store.disk[p])
       /\ trace' # trace =>
            LET name == trace'[Len(trace')]
                resident == store.current_column_name
            IN  /\ resident \notin {NoName, name} =>
                      /\ last'.wrote
                      /\ store'.disk[ColPath(resident)] = Pickle(store.current_column)
                /\ resident \in {NoName, name} =>
                      /\ ~last'.wrote
                      /\ store'.disk = store.disk
                /\ ~IsRaised(last'.ret) =>
                      /\ last'.ret = Unpickle(store'.disk[ColPath(name)])
                      /\ store'.current_column = last'.ret
      ]_vars

\* C17 witness: A was loaded and modified, swapped out by a load of B and
\* loaded again: the load returned A as modified.
C17_Witness ==
    /\ trace = <<"A", "B", "A">>
    /\ mutated = {"A"}
    /\ last.wrote
    /\ last.ret.rows # source_df.data["A"]
    /\ last.ret = Unpickle(store.disk[ColPath("A")])
    /\ store.current_column = last.ret

\* What the caller last saw of a column: the frame in memory when the
\* column is resident (the object load_column handed out, with the caller's
\* changes), and otherwise what its file holds.
CallerView(self, name) ==
    IF self.current_column_name = name
    THEN self.current_column
    ELSE Unpickle(self.disk[ColPath(name)])

\* C22 (as claimed): a change the caller made to a column is never lost:
\* every load_column that returns a frame returns the column as the caller
\* last left it, also when the column asked for is the resident one.
C22_ModificationNeverLost ==
    [][(trace' # trace /\ ~IsRaised(last'.ret)) =>
            last'.ret = CallerView(store, trace'[Len(trace')])
      ]_vars

\* C12: the column names the store reports are the dataset's column names
\* in the dataset's order, also for a dataset without columns, and stay so
\* through every load_column and every iteration.
C12_ColumnNamesStable == get_columns(store) = source_df.columns

\* C12 witness: a store of at least two columns that was iterated to the
\* end, with a load_column of the caller's in between, reports its columns.
C12_Witness ==
    /\ Len(source_df.columns) >= 2
    /\ Len(it.passes) >= 1
    /\ it.loads >= 1
    /\ store.current_column_name # NoName
    /\ get_columns(store) = source_df.columns

\* What a finished pass yielded is the stored columns, one item each, in
\* stored order, each the column as stored.
YieldsStored(out) ==
    /\ Len(out) = Len(source_df.columns)
    /\ \A i \in DOMAIN out :
          /\ out[i].name = source_df.columns[i]
          /\ out[i].frame = Frame(source_df, out[i].name)

\* C16: an iteration yields one item per stored column, in stored order,
\* and then ends; in a pass the caller did not interleave with loads of its
\* own, every step after the first wrote the column yielded before it back
\* to disk before reading; every further pass yields the same again.
C16_IterationYieldsAll ==
    /\ \A i \in DOMAIN it.out : it.out[i].name = source_df.columns[i]
    /\ it.state = "done" => it.pos = Len(source_df.columns) + 1
    /\ \A p \in DOMAIN it.passes :
          /\ YieldsStored(it.passes[p].out)
          /\ \A q \in DOMAIN it.passes :
                \A i \in DOMAIN it.passes[p].out :
                    /\ it.passes[p].out[i].name = it.passes[q].out[i].name
                    /\ it.passes[p].out[i].frame = it.passes[q].out[i].frame
          /\ it.passes[p].clean =>
                \A i \in 2..Len(it.passes[p].out) :
                    /\ it.passes[p].out[i].wrote
                    /\ it.passes[p].out[i].evicted = it.passes[p].out[i - 1].name

\* C16 witness: two uninterrupted passes over three columns of different
\* content; the second pass began by writing the last column back.
C16_Witness ==
    /\ Len(source_df.columns) = 3
    /\ Len(it.passes) = 2
    /\ it.passes[1].clean /\ it.passes[2].clean
    /\ source_df.data[source_df.columns[1]] # source_df.data[source_df.columns[2]]
    /\ it.passes[2].out[1].evicted = source_df.columns[3]
    /\ it.passes[2].out[3].evicted = source_df.columns[2]
    /\ YieldsStored(it.passes[2].out)

(***************************************************************************)
(* Claims about the drift analysis                                         *)
(***************************************************************************)
ValueSet(df) == {df["x"][i] : i \in DOMAIN df["x"]}

\* C3: detect_new_categorical_values returns a dict without new_values when
\* every value of new occurs in original, and otherwise a dict whose
\* new_values is a non-empty list that, as a set, is set(new) - set(original).
C3_NewValues ==
    a_call.op = "detect_new_categorical_values" =>
        IF ValueSet(a_new) \subseteq ValueSet(a_orig)
        THEN DOMAIN a_call.ret = {}
        ELSE /\ DOMAIN a_call.ret = {"new_values"}
             /\ Len(a_call.ret.new_values) > 0
             /\ Range(a_call.ret.new_values) = ValueSet(a_new) \ ValueSet(a_orig)
             /\ \A v \in Range(a_call.ret.new_values) : v \notin ValueSet(a_orig)

\* C3 witness: original holds a and b, new holds a and c: new_values is [c].
C3_Witness ==
    /\ a_call.op = "detect_new_categorical_values"
    /\ a_orig["x"] = <<"a", "b">>
    /\ a_new["x"] = <<"a", "c">>
    /\ a_call.ret = [new_values |-> <<"c">>]

CombinedLen == Len(a_orig["x"]) + Len(a_new["x"])

\* C8 (as claimed): with a non-empty combined input no longer than period,
\* analyze_trend_changes returns trend_significant_change = false.
C8_ShortSeriesNotSignificant ==
    (/\ a_call.op = "analyze_trend_changes"
     /\ "t" \in DOMAIN a_orig /\ "t" \in DOMAIN a_new
     /\ Len(a_orig["x"]) >= 1 /\ Len(a_new["x"]) >= 1
     /\ CombinedLen <= a_period)
        => a_call.ret = [trend_significant_change |-> FALSE]

IsConstant(s) == \A i \in DOMAIN s, j \in DOMAIN s : s[i] = s[j]

\* C9 (as claimed): on one constant value repeated for at least 2 * period
\* rows, analyze_trend_changes returns trend_significant_change = false.
C9_ConstantSeriesNotSignificant ==
    (/\ a_call.op = "analyze_trend_changes"
     /\ "t" \in DOMAIN a_orig /\ "t" \in DOMAIN a_new
     /\ Len(a_orig["x"]) >= 1 /\ Len(a_new["x"]) >= 1
     /\ IsConstant(a_orig["x"] \o a_new["x"])
     /\ CombinedLen >= 2 * a_period)
        => a_call.ret = [trend_significant_change |-> FALSE]

(***************************************************************************)
(* Claims about the profile reduction                                      *)
(***************************************************************************)
ReportVariables ==
    IF DHas(r_report, "variables") THEN DGet(r_report, "variables").dict ELSE <<>>

KnownFamilies == {"Categorical", "TimeSeries", "Numeric"}

TypeOf(details) == IF DHas(details, "type") THEN DGet(details, "type").str ELSE "untyped"

\* The report is of one variable whose type is one of the three families.
SingleKnownVariable ==
    /\ Len(ReportVariables) = 1
    /\ TypeOf(ReportVariables[1][2].dict) \in KnownFamilies

\* C2 (as claimed): reducing a report of one Categorical, TimeSeries or
\* Numeric variable does not raise: the table has the variable's record,
\* in which a metric with an absent input is empty (NaN, or False for the
\* comparison) and every other field is there.
C2_ReductionNeverRaises ==
    (r_call.op = "extract_profile_data" /\ SingleKnownVariable) =>
        /\ ~IsRaised(r_call.ret)
        /\ Len(r_call.ret.rows) = 1
        /\ \A i \in DOMAIN Metrics :
              /\ Metrics[i].name \in DOMAIN r_call.ret.rows[1]
              /\ (\E j \in DOMAIN Metrics[i].args :
                     Metrics[i].args[j] \notin
                         DKeys(flatten_dict(filter_profile_data(r_report)[1][2].dict, "")))
                 => r_call.ret.rows[1][Metrics[i].name] \in {NaN, Bool(FALSE)}

\* The row of the reduced table for a variable.
RowsOf(table, variable) ==
    {i \in DOMAIN table.rows : table.rows[i]["column_name"] = Str(variable)}

\* C14 (as claimed): for every Numeric variable of the report that has
\* p_missing = p and mean = m, the reduction returns a table with the
\* variable's record, in which numeric_missing_impact = p * m and
\* data_completeness = 1 - p (2 and 4/5 for p = 1/5 and m = 10).
C14_NumericMissingImpact ==
    r_call.op = "extract_profile_data" =>
        \A i \in DOMAIN ReportVariables :
            LET variable == ReportVariables[i][1]
                details == ReportVariables[i][2].dict
            IN  (/\ TypeOf(details) = "Numeric"
                 /\ DHas(details, "p_missing")
                 /\ DHas(details, "mean")) =>
                    /\ ~IsRaised(r_call.ret)
                    /\ \E r \in RowsOf(r_call.ret, variable) :
                          /\ r_call.ret.rows[r]["numeric_missing_impact"] =
                                CellMul(DGet(details, "p_missing"),
                                        DGet(details, "mean"))
                          /\ r_call.ret.rows[r]["data_completeness"] =
                                CellSub(Rat(1, 1), DGet(details, "p_missing"))
                          /\ DGet(details, "mean") = Rat(10, 1) =>
                                /\ r_call.ret.rows[r]["numeric_missing_impact"]
                                      = Rat(2, 1)
                                /\ r_call.ret.rows[r]["data_completeness"]
                                      = Rat(4, 5)

\* The metrics that divide, and whether one does so by zero in a row.
Dividing == {i \in DOMAIN Metrics : Metrics[i].op = "div"}

ZeroDivisor(row, m) ==
    IsNum(Cell(row, m.args[2])) /\ Cell(row, m.args[2]).num = 0

NonFinite == {NaN, Inf(1), Inf(-1)}

\* C15: a zero divisor never makes calculate_observability_metrics abort:
\* the call raises exactly when a column a metric reads is missing from the
\* frame; otherwise a metric that divides by zero in a row is non-finite
\* (inf, -inf or NaN) in that row, a division of numbers by a non-zero
\* number is their quotient, every metric is assigned in every row and the
\* fields the frame had are unchanged.
C15_ZeroDivisionNotFatal ==
    r_call.op = "calculate_observability_metrics" =>
        /\ IsRaised(r_call.ret) <=>
              \E i \in DOMAIN Metrics : \E j \in DOMAIN Metrics[i].args :
                  Metrics[i].args[j] \notin Range(r_call.df.columns)
        /\ ~IsRaised(r_call.ret) =>
              /\ DOMAIN r_call.ret.rows = DOMAIN r_call.df.rows
              /\ \A r \in DOMAIN r_call.df.rows :
                    LET row == r_call.df.rows[r]
                        out == r_call.ret.rows[r]
                    IN  /\ \A c \in DOMAIN row : out[c] = row[c]
                        /\ \A i \in DOMAIN Metrics : Metrics[i].name \in DOMAIN out
                        /\ \A i \in Dividing :
                              LET a == Cell(row, Metrics[i].args[1])
                                  b == Cell(row, Metrics[i].args[2])
                                  q == out[Metrics[i].name]
                              IN  /\ ZeroDivisor(row, Metrics[i]) => q \in NonFinite
                                  /\ (IsNum(a) /\ IsNum(b) /\ b.num # 0) =>
                                        /\ IsNum(q)
                                        /\ q.num * b.num * a.den
                                              = a.num * b.den * q.den

\* C15 witness: a frame of two rows, the first with n = 0, mean = 0 and
\* std = 0: its ratios are inf and NaN and its data_completeness is 4/5,
\* while the second row has numbers in the same columns.
C15_Witness ==
    /\ r_call.op = "calculate_observability_metrics"
    /\ ~IsRaised(r_call.ret)
    /\ Len(r_call.ret.rows) = 2
    /\ r_call.df.rows[1]["n"] = Rat(0, 1)
    /\ r_call.df.rows[1]["mean"] = Rat(0, 1)
    /\ r_call.df.rows[1]["std"] = Rat(0, 1)
    /\ r_call.ret.rows[1]["categorical_cardinality_ratio"] = Inf(1)
    /\ r_call.ret.rows[1]["timeseries_volatility_index"] = NaN
    /\ r_call.ret.rows[1]["numeric_outlier_indicator"] = Inf(1)
    /\ r_call.ret.rows[1]["data_completeness"] = Rat(4, 5)
    /\ r_call.ret.rows[2]["categorical_cardinality_ratio"] = Rat(2, 5)
    /\ r_call.ret.rows[2]["timeseries_volatility_index"] = Rat(1, 5)
    /\ r_call.ret.rows[2]["numeric_outlier_indicator"] = Flt(3)

\* out holds exactly the keys of details that the whitelist has, each once;
\* under such a key, a mapping under a nested whitelist entry is whitelisted
\* in turn and anything else is the value as it was.
RECURSIVE ExactlyWhitelisted(_, _, _)
ExactlyWhitelisted(out, details, keep) ==
    /\ DKeys(out) = DKeys(details) \cap DKeys(keep)
    /\ Len(out) = Cardinality(DKeys(out))
    /\ \A k \in DKeys(out) :
          IF IsDict(DGet(details, k)) /\ IsDict(DGet(keep, k))
          THEN /\ IsDict(DGet(out, k))
               /\ ExactlyWhitelisted(DGet(out, k).dict, DGet(details, k).dict,
                                     DGet(keep, k).dict)
          ELSE DGet(out, k) = DGet(details, k)

\* The variables of a report, and those of a known family.
VariablesOf(profile_data) ==
    IF DHas(profile_data, "variables") THEN DGet(profile_data, "variables").dict
    ELSE <<>>

HasKnownType(details) ==
    /\ DHas(details, "type")
    /\ "str" \in DOMAIN DGet(details, "type")
    /\ DGet(details, "type").str \in KnownFamilies

\* C19: on every report filter_profile_data returns, and what
\* it returns is the variables of the report whose type is Categorical,
\* TimeSeries or Numeric and no other, each with exactly the whitelisted
\* keys of its statistics, nested mappings whitelisted in turn and other
\* values as they were; the report itself is as it was.
C19_FilterExact ==
    r_call.op = "filter_profile_data" =>
        LET variables == VariablesOf(r_call.profile_data)
        IN  /\ ~r_call.raised
            /\ DKeys(r_call.ret) =
                  {variables[i][1] : i \in {j \in DOMAIN variables :
                                               HasKnownType(variables[j][2].dict)}}
            /\ Len(r_call.ret) = Cardinality(DKeys(r_call.ret))
            /\ \A i \in DOMAIN variables :
                  HasKnownType(variables[i][2].dict) =>
                      ExactlyWhitelisted(
                          DGet(r_call.ret, variables[i][1]).dict,
                          variables[i][2].dict,
                          DGet(fields_to_keep,
                               DGet(variables[i][2].dict, "type").str).dict)
            /\ r_call.profile_data \in {r_report} \cup OddReports

\* C19 witness: of two variables one was dropped for its type; the other
\* lost its keys outside the whitelist, also inside chi_squared, and kept
\* the rest.
C19_Witness ==
    /\ r_call.op = "filter_profile_data"
    /\ ~r_call.raised
    /\ Len(VariablesOf(r_call.profile_data)) = 2
    /\ Len(r_call.ret) = 1
    /\ LET out == r_call.ret[1][2].dict
           details == DGet(VariablesOf(r_call.profile_data), r_call.ret[1][1]).dict
       IN  /\ DHas(details, "histogram") /\ ~DHas(out, "histogram")
           /\ DHas(out, "n")
           /\ DHas(details, "chi_squared")
           /\ DHas(DGet(details, "chi_squared").dict, "dof")
           /\ DKeys(DGet(out, "chi_squared").dict) = {"statistic", "pvalue"}

\* The leaves of a nested mapping, each with the keys that lead to it.
RECURSIVE LeafPaths(_)
LeafPaths(data) ==
    UNION {IF IsDict(data[i][2])
           THEN {[path |-> <<data[i][1]>> \o l.path, value |-> l.value] :
                    l \in LeafPaths(data[i][2].dict)}
           ELSE {[path |-> <<data[i][1]>>, value |-> data[i][2]]} :
           i \in DOMAIN data}

\* The keys of a path joined with '_'.
RECURSIVE Join(_)
Join(path) ==
    IF Len(path) = 1 THEN path[1] ELSE path[1] \o "_" \o Join(Tail(path))

\* C20: flatten_dict returns a mapping none of whose values is
\* a mapping, whose keys are the '_'-joined key paths of the leaves of its
\* argument and whose values are those leaves; on the statistics of a
\* filtered report every leaf is there under its own key.
C20_FlattenKeys ==
    r_call.op = "flatten_dict" =>
        LET leaves == LeafPaths(r_call.data)
        IN  /\ \A i \in DOMAIN r_call.ret : ~IsDict(r_call.ret[i][2])
            /\ DKeys(r_call.ret) = {Join(l.path) : l \in leaves}
            /\ \A i \in DOMAIN r_call.ret :
                  \E l \in leaves : /\ Join(l.path) = r_call.ret[i][1]
                                    /\ l.value = r_call.ret[i][2]
            /\ r_call.filtered =>
                  /\ Len(r_call.ret) = Cardinality({l.path : l \in leaves})
                  /\ \A l \in leaves : DGet(r_call.ret, Join(l.path)) = l.value

\* C20 witness: the statistics of a filtered report with chi_squared and
\* gap_stats nested: their leaves are under chi_squared_pvalue and
\* gap_stats_n_gaps, next to the leaves that were at the top.
C20_Witness ==
    /\ r_call.op = "flatten_dict"
    /\ r_call.filtered
    /\ {"n", "chi_squared", "gap_stats"} \subseteq DKeys(r_call.data)
    /\ IsDict(DGet(r_call.data, "chi_squared"))
    /\ IsDict(DGet(r_call.data, "gap_stats"))
    /\ DHas(DGet(r_call.data, "chi_squared").dict, "pvalue")
    /\ DHas(DGet(r_call.data, "gap_stats").dict, "n_gaps")
    /\ {"n", "chi_squared_pvalue", "gap_stats_n_gaps"} \subseteq DKeys(r_call.ret)
    /\ DGet(r_call.ret, "n") = DGet(r_call.data, "n")
    /\ DGet(r_call.ret, "chi_squared_pvalue")
          = DGet(DGet(r_call.data, "chi_squared").dict, "pvalue")
    /\ DGet(r_call.ret, "gap_stats_n_gaps")
          = DGet(DGet(r_call.data, "gap_stats").dict, "n_gaps")
    /\ ~DHas(r_call.ret, "chi_squared")

\* C13: filter_nested_fields is idempotent: filtering what it returned
\* against the same whitelist returns the same again.
C13_FilterIdempotent ==
    r_call.op = "filter_nested_fields" => r_call.again = r_call.ret

\* C13 witness: a filter that dropped a top-level key and a key of a nested
\* mapping, and kept something of each.
C13_Witness ==
    /\ r_call.op = "filter_nested_fields"
    /\ r_call.again = r_call.ret
    /\ Len(r_call.ret) < Len(r_call.details)
    /\ \E i \in DOMAIN r_call.ret :
          /\ IsDict(r_call.ret[i][2])
          /\ r_call.ret[i][2].dict # <<>>
          /\ r_call.ret[i][2] # DGet(r_call.details, r_call.ret[i][1])

(***************************************************************************)
(* Claims about the column orchestration                                   *)
(***************************************************************************)
\* The type the TypeSchema declares for a column, "absent" if none.
Declared(column_name) ==
    IF column_name \in DOMAIN o_config.type_schema
    THEN o_config.type_schema[column_name] ELSE "absent"

DriftFieldsMatch(record, column_name) ==
    /\ "trend_significant_change" \in DOMAIN record
          => Declared(column_name) = "timeseries"
    /\ "new_values" \in DOMAIN record => Declared(column_name) = "categorical"

\* C4: process_column calls analyze_trend_changes only, for a timeseries
\* column, detect_new_categorical_values only, for a categorical column, and
\* neither for any other column; so the record it builds, and every record
\* of the final table, has trend_significant_change only if its column is
\* timeseries and new_values only if its column is categorical.
C4_DispatchByType ==
    /\ (o_log.op = "process_column" /\ o_log.entered) =>
          /\ Declared(o_log.column_name) = "timeseries"
                => o_log.called = {"analyze_trend_changes"}
          /\ Declared(o_log.column_name) = "categorical"
                => o_log.called = {"detect_new_categorical_values"}
          /\ Declared(o_log.column_name) \notin {"timeseries", "categorical"}
                => o_log.called = {}
          /\ DriftFieldsMatch(o_log.result, o_log.column_name)
    /\ \A i \in DOMAIN o_final : DriftFieldsMatch(o_final[i], o_final[i].column_name.str)

\* C4 witness: a timeseries column went through the trend analysis, which
\* gave a verdict that was put into the column's record, and through nothing
\* else.
C4_Witness ==
    /\ o_log.op = "process_column"
    /\ o_log.entered
    /\ Declared(o_log.column_name) = "timeseries"
    /\ o_log.called = {"analyze_trend_changes"}
    /\ "trend_significant_change" \in DOMAIN o_log.result
    /\ "new_values" \notin DOMAIN o_log.result

\* C5 (as claimed): for a column the TypeSchema does not name, or declares
\* of a type other than categorical, numeric and timeseries, process_column
\* does not fail, runs neither drift function and returns a record that
\* carries column_name.
C5_UnknownTypeStillReported ==
    (/\ o_log.op = "process_column"
     /\ o_log.entered
     /\ Declared(o_log.column_name) \notin {"categorical", "numeric", "timeseries"})
        => /\ ~IsRaised(o_log.ret)
           /\ o_log.called = {}
           /\ "column_name" \in DOMAIN o_log.ret

\* The columns of the original dataset other than the time column, in order.
AnalysedColumns == SelectSeq(o_orig.columns, LAMBDA c : c # o_config.time_column)

\* C10 (as claimed): on a dataset that has the time column and whose other
\* columns are all declared categorical, numeric or timeseries,
\* process_columns ends with a table of one row per column other than the
\* time column, in the dataset's order, each row carrying its column's name.
C10_OneRowPerColumn ==
    (/\ o_pc \in {"returned", "raised"}
     /\ "t" \in Range(o_orig.columns)
     /\ \A i \in DOMAIN AnalysedColumns :
           Declared(AnalysedColumns[i]) \in {"categorical", "numeric", "timeseries"}) =>
        /\ o_pc = "returned"
        /\ Len(o_final) = Len(AnalysedColumns)
        /\ \A i \in DOMAIN o_final : o_final[i].column_name = Str(AnalysedColumns[i])

\* The ways the pass for one column may end when process_columns is given
\* the two datasets as pandas frames: what process_column returned or raised
\* and the dict result as it left it.
InMemoryOutcomes(column_name) ==
    {[ret |-> o.ret, result |-> o.result] :
        o \in ColumnOutcomes(o_orig.data, o_new.data, o_config, column_name)}

\* C21 (as claimed): process_columns on the two datasets wrapped in stores
\* completes, every pass of its loop ends as a pass of process_columns on
\* the same datasets in memory may end (so the tables are equal, row by row),
\* and the record of a timeseries column holds trend_significant_change.
C21_StorePathSameTable ==
    /\ o_pc # "raised"
    /\ o_log.op = "process_column" =>
          /\ [ret |-> o_log.ret, result |-> o_log.result]
                \in InMemoryOutcomes(o_log.column_name)
          /\ Declared(o_log.column_name) = "timeseries" =>
                "trend_significant_change" \in DOMAIN o_log.result

\* The active slot of a store is empty or holds exactly the column named.
OneResident(self) ==
    \/ self.current_column_name = NoName /\ self.current_column = None
    \/ /\ self.current_column_name \in Range(self.columns)
       /\ self.current_column.cols = <<self.current_column_name>>

\* C18 (as claimed): on two stores process_columns obtains every analysed
\* column of both through load_column: the calls are original then new for
\* one column name at a time, in the order of the analysed columns, and a
\* run that has ended has made them for every analysed column; at every
\* point of the run each store has at most one column resident, and when
\* both have one the two have the same name.
C18_LockstepLoads ==
    /\ \A j \in DOMAIN k_loads :
          /\ (j + 1) \div 2 \in DOMAIN AnalysedColumns
          /\ k_loads[j] = [store |-> IF j % 2 = 1 THEN "original" ELSE "new",
                           name |-> AnalysedColumns[(j + 1) \div 2]]
    /\ OneResident(k_orig)
    /\ OneResident(k_new)
    /\ (k_orig.current_column_name # NoName /\ k_new.current_column_name # NoName)
          => k_orig.current_column_name = k_new.current_column_name
    /\ o_pc \in {"returned", "raised"} => Len(k_loads) = 2 * Len(AnalysedColumns)

============================================================================
